---- MODULE Spec2Model ----
(***************************************************************************)
(* Model of the document analysis and tool-using conversation engine of    *)
(* research-assistant-backend:                                             *)
(*   - the agent loop of one question (processChatMessage),                *)
(*   - the rate limiter (rateLimitedCall),                                 *)
(*   - the salvage parser of model output (parseGeminiResponse),           *)
(*   - the batch analysis pipeline (processChunksWithGemini,               *)
(*     analyzePaperChunks, processBatch, generateHierarchicalSummary).     *)
(* Each part has its own specification over its own group of variables;    *)
(* the other groups stay at their initial value.                           *)
(***************************************************************************)
EXTENDS Integers, Sequences, FiniteSets, TLC

VARIABLES
    \* ---- agent loop of one question (processChatMessage)
    apc,             \* position: "priming", "loop", "done", "failed"
    turns,           \* let turns
    apiCallsMade,    \* context.apiCallsMade
    usedFunctions,   \* context.usedFunctions
    messageHistory,  \* messageHistory, one kind per pushed message
    finalAnswer,     \* let finalAnswer (NoAnswer stands for null)
    assistantMessage,\* content of the persisted assistant ChatMessage
    raised,          \* an error left processChatMessage
    modelCalls,      \* number of generateChatResponse calls made
    toolsExecuted,   \* number of callFunctionByName calls made by the loop
    firstRequest,    \* what the response of turn 1 asked for
    lastRequest,     \* what the response of the latest turn asked for
    onlyCalls,       \* every response so far named a function to call
    lastPush,        \* messages pushed by the latest turn
    lastGeneral      \* the main idea of the latest response when it had the
                     \* general-conversation shape, else nothing

agentVars == <<apc, turns, apiCallsMade, usedFunctions, messageHistory,
               finalAnswer, assistantMessage, raised, modelCalls,
               toolsExecuted, firstRequest, lastRequest, onlyCalls,
               lastPush, lastGeneral>>

VARIABLES
    \* ---- rate limiter (rateLimitedCall) and its callers
    now,             \* Date.now(), in ticks
    requestCount,    \* let requestCount
    lastRequestTime, \* let lastRequestTime
    lpc,             \* per caller: "idle" or "waiting" (in await setTimeout)
    ltier,           \* per caller: the tier of the call it is in
    wakeAt,          \* per caller: when its timer is due
    acqLog,          \* the acquisitions granted so far, in order
    resetAt,         \* positions in acqLog of the first acquisition after
                     \* each counter reset
    recording        \* whether acqLog and resetAt are kept

limVars == <<now, requestCount, lastRequestTime, lpc, ltier, wakeAt, acqLog,
             resetAt, recording>>

VARIABLES
    \* ---- parseGeminiResponse applied to one response text
    ppc,             \* "idle", "received", "parsed"
    response,        \* the response text, a sequence of tokens
    parsedResult     \* what parseGeminiResponse returned or threw

parseVars == <<ppc, response, parsedResult>>

VARIABLES
    \* ---- the analysis pipeline, per uploaded document
    dpc,                  \* "idle", "analysis", "hierarchical", "refine",
                          \* "completed", "failed"
    nChunks,              \* chunks.length
    nextIndex,            \* the loop index i of the next batch
    inFlight,             \* the batch calls awaiting a model response
    chunkResults,         \* chunkResults, with holes
    hierarchicalSummary,  \* the value generateHierarchicalSummary returned
    storedSummary,        \* hierarchicalSummary of the stored knowledge base
    aggregatedSummary,    \* aggregatedSummary of the stored knowledge base
    chunkTexts,           \* chunks: the text of each chunk (an identifier)
    storedChunks,         \* chunks of the stored knowledge base
    settled,              \* the batches whose analyzePaperChunks returned
    pipelineRaised,       \* processChunksWithGemini threw
    storeFailed,          \* a store operation of the run was rejected
    batchFailed,          \* some batch's model call and fallback both failed
    progressLog,          \* the processingProgress values written, in order
    mergedSummaries,      \* per batch, the merged summary processBatch returned
    userTier,             \* user.tier of the uploader of the documents
    batchWaits,           \* the waits made between batches, in ms, in order
    llmRequests,          \* generateContent calls made for the document
    slotsAcquired         \* rateLimitedCall acquisitions made for the document

pipeVars == <<dpc, nChunks, nextIndex, inFlight, chunkResults,
              hierarchicalSummary, storedSummary, aggregatedSummary,
              chunkTexts, storedChunks, settled, pipelineRaised, storeFailed,
              batchFailed, progressLog, mergedSummaries, userTier,
              batchWaits, llmRequests, slotsAcquired>>

VARIABLES
    \* ---- the chunker applied to one extracted text
    cpc,             \* "idle", "extracted", "chunked"
    chunkerText,     \* text
    fallbackSize,    \* fallbackChunkSize
    chunkerResult    \* the chunks returned

chunkerVars == <<cpc, chunkerText, fallbackSize, chunkerResult>>

VARIABLES
    \* ---- searchKnowledgeBase applied to one stored document
    spc,               \* "idle", "requested", "returned"
    searchChunks,      \* the chunks of the document
    searchQuery,       \* the terms of query
    searchMaxResults,  \* maxResults
    fullTextMatches,   \* whether the document matches the $text query
    searchResult       \* the stage that answered and what it returned

searchVars == <<spc, searchChunks, searchQuery, searchMaxResults,
                fullTextMatches, searchResult>>

\* The retrieval tools and their caches: the stored documents, knowledge
\* bases and chat messages, and the three caches.
VARIABLES papers, issuedIds, knowledgeBases, chatMessages,
          PAPER_CONTEXT_CACHE, SEARCH_RESULT_CACHE, memoryCache,
          primingLog   \* what the latest priming read or called, in order

toolVars == <<papers, issuedIds, knowledgeBases, chatMessages,
              PAPER_CONTEXT_CACHE, SEARCH_RESULT_CACHE, memoryCache,
              primingLog>>

VARIABLES
    \* ---- one uploadPapers request and the store records of its files
    upc,                  \* "idle", "processing", "responded", "rejected"
    uploadFiles,          \* req.files
    fpc,                  \* per file, the step processSinglePaper is at
    paperVar,             \* per file, whether the local paper is assigned
    paperDoc,             \* per file, the Paper record in the store
    kbDoc,                \* per file, the KnowledgeBase record in the store
    finalPending,         \* per file, the final updates not yet settled
    fileResult,           \* per file, what processSinglePaper returned
    usageAtRequest,       \* usage.currentMonthUploads read by the request
    currentMonthUploads,  \* usage.currentMonthUploads of the stored user
    uploadResponse        \* the body passed to res.json

uploadVars == <<upc, uploadFiles, fpc, paperVar, paperDoc, kbDoc,
                finalPending, fileResult, usageAtRequest,
                currentMonthUploads, uploadResponse>>

vars == <<agentVars, limVars, parseVars, pipeVars, chunkerVars, searchVars,
          toolVars, uploadVars>>

\* What each component leaves alone.
exceptAgent == <<limVars, parseVars, pipeVars, chunkerVars, searchVars,
    toolVars, uploadVars>>
exceptLimiter == <<agentVars, parseVars, pipeVars, chunkerVars, searchVars,
    toolVars, uploadVars>>
exceptParse == <<agentVars, limVars, pipeVars, chunkerVars, searchVars,
    toolVars, uploadVars>>
exceptPipeline == <<agentVars, limVars, parseVars, chunkerVars, searchVars,
    toolVars, uploadVars>>
exceptChunker == <<agentVars, limVars, parseVars, pipeVars, searchVars,
    toolVars, uploadVars>>
exceptSearch == <<agentVars, limVars, parseVars, pipeVars, chunkerVars,
    toolVars, uploadVars>>
exceptTools == <<agentVars, limVars, parseVars, pipeVars, chunkerVars,
    searchVars, uploadVars>>
exceptUpload == <<agentVars, limVars, parseVars, pipeVars, chunkerVars,
    searchVars, toolVars>>

(***************************************************************************)
(* Agent loop: src/src/controllers/paperChat.controller.js                 *)
(***************************************************************************)
MAX_API_CALLS == 3
MAX_TURNS == 4
MinMainIdea == 50
MinEvidence == 2
MinAnalysis == 200

ValidFunctions == {"getPaperDetails", "searchKnowledgeBase", "getChatHistory"}

\* function_call of a parsed response: absent, an object without a name, one
\* of the allowed names, or a name outside the allow-list.
FunctionCalls == {"none", "noname"} \cup ValidFunctions \cup {"deletePaper"}

\* Lengths and counts on both sides of each validation threshold.
MainIdeaLens == {0, MinMainIdea - 1, MinMainIdea}
EvidenceCounts == {MinEvidence - 1, MinEvidence}
AnalysisLens == {MinAnalysis - 1, MinAnalysis}

\* What parseGeminiResponse hands to the loop: an object with the fields
\* the loop reads, or null (the text "null" parses to null).
ObjectResponses ==
    { r \in [kind : {"object"}, fc : FunctionCalls, thinking : BOOLEAN,
             content : BOOLEAN, main : MainIdeaLens,
             ev : EvidenceCounts \cup {0}, an : AnalysisLens \cup {0}] :
        /\ (~r.content) => (r.main = 0 /\ r.ev = 0 /\ r.an = 0)
        /\ r.content => (r.ev # 0 /\ r.an # 0) }

NullResponse == [kind |-> "null"]
\* generateChatResponse threw: the call and its fallback call both failed.
ModelFailure == [kind |-> "failure"]

Responses == ObjectResponses \cup {NullResponse, ModelFailure}

\* Outcome of the tool behind callFunctionByName.
ToolOutcomes == {"results", "empty", "throws"}

NoAnswer == [kind |-> "none"]
CouldNotAnswer == [kind |-> "could_not_generate"]
FallbackAnswer == [kind |-> "rephrase"]

HasContent(parsed) == parsed.content
HasMainIdea(parsed) == parsed.content /\ parsed.main > 0
HasFunctionCall(parsed) == parsed.fc # "none"
HasFunctionName(parsed) == parsed.fc \notin {"none", "noname"}

validateResponseStructure(parsed) ==
    IF HasContent(parsed) /\ HasMainIdea(parsed) /\ ~parsed.thinking
    THEN "valid"
    ELSE IF ~HasContent(parsed) \/ ~parsed.thinking
    THEN "invalid_format"
    ELSE IF parsed.main < MinMainIdea
    THEN "main_idea_too_short"
    ELSE IF parsed.ev < MinEvidence
    THEN "evidence_missing"
    ELSE IF parsed.an < MinAnalysis
    THEN "analysis_too_short"
    ELSE "valid"

formatFinalAnswer_General(parsed) ==
    IF ~HasContent(parsed)
    THEN CouldNotAnswer
    ELSE IF HasMainIdea(parsed) /\ ~parsed.thinking
    THEN [kind |-> "main_idea", main |-> parsed.main]
    ELSE [kind |-> "detailed", main |-> parsed.main, ev |-> parsed.ev,
          an |-> parsed.an]

formatFinalAnswer_Detailed(parsed) ==
    IF ~HasContent(parsed)
    THEN CouldNotAnswer
    ELSE [kind |-> "detailed", main |-> parsed.main, ev |-> parsed.ev,
          an |-> parsed.an]

formatFinalAnswer(parsed) ==
    IF ~HasContent(parsed)
    THEN CouldNotAnswer
    ELSE IF HasMainIdea(parsed) /\ ~HasFunctionCall(parsed) /\ ~parsed.thinking
    THEN [kind |-> "main_idea", main |-> parsed.main]
    ELSE [kind |-> "detailed", main |-> parsed.main, ev |-> parsed.ev,
          an |-> parsed.an]

\* handleFunctionCall: "rejected" when the name is outside the allow-list,
\* otherwise what callFunctionByName does.
handleFunctionCall(name, outcome) ==
    IF name \notin ValidFunctions THEN "rejected" ELSE outcome

\* What a turn's response asked for: the function it names, a final answer
\* (a main idea and no function call), or neither.
ResponseClass(parsed) ==
    IF parsed.kind # "object" THEN parsed.kind
    ELSE IF HasFunctionName(parsed) THEN parsed.fc
    ELSE IF HasMainIdea(parsed) /\ ~HasFunctionCall(parsed) THEN "final_answer"
    ELSE "other"

\* A general-conversation response: a main idea, no function call and no
\* reasoning trace.
GeneralConversation(parsed) ==
    /\ parsed.kind = "object"
    /\ HasMainIdea(parsed)
    /\ ~HasFunctionCall(parsed)
    /\ ~parsed.thinking

\* The main idea of a general-conversation response.
GeneralMainIdea(parsed) ==
    IF GeneralConversation(parsed) THEN {parsed.main} ELSE {}

AgentInit ==
    /\ apc = "priming"
    /\ turns = 0
    /\ apiCallsMade = 0
    /\ usedFunctions = {}
    /\ messageHistory = <<>>
    /\ finalAnswer = NoAnswer
    /\ assistantMessage = NoAnswer
    /\ raised = FALSE
    /\ modelCalls = 0
    /\ toolsExecuted = 0
    /\ firstRequest = "none_yet"
    /\ lastRequest = "none_yet"
    /\ onlyCalls = TRUE
    /\ lastPush = <<>>
    /\ lastGeneral = {}

\* Context priming: getPaperDetails, then searchKnowledgeBase; an error in
\* either ends the priming without failing the question.
ContextPriming ==
    /\ apc = "priming"
    /\ \E primed \in {{}, {"getPaperDetails"},
                      {"getPaperDetails", "searchKnowledgeBase"}} :
          usedFunctions' = primed
    /\ messageHistory' = <<"initial_prompt">>
    /\ apc' = "loop"
    /\ UNCHANGED <<turns, apiCallsMade, finalAnswer, assistantMessage, raised,
                   modelCalls, toolsExecuted, firstRequest, lastRequest,
                   onlyCalls, lastPush, lastGeneral>>

\* The loop leaves its body when the turns are used up or an answer is set.
LoopCondition == turns < MAX_TURNS /\ finalAnswer = NoAnswer

CeilingReached_Late == apiCallsMade > MAX_API_CALLS

\* The per-question ceiling on executed tool calls.
CeilingReached == apiCallsMade >= MAX_API_CALLS

TurnError_Rethrow ==
    /\ lastPush' = <<>>
    /\ raised' = TRUE

\* The catch block of a turn: the error is logged, the steering message is
\* pushed and the loop goes on.
TurnError ==
    /\ lastPush' = <<"allowed_functions">>
    /\ raised' = FALSE

\* The turn reaches handleFunctionCall with this response.
CallsTool(parsed) ==
    /\ parsed.kind = "object"
    /\ HasFunctionName(parsed)
    /\ validateResponseStructure(parsed) = "valid"
    /\ ~CeilingReached

\* One pass through the body of the while loop.
Turn(parsed, outcome) ==
    /\ apc = "loop"
    /\ LoopCondition
    /\ turns' = turns + 1
    /\ modelCalls' = modelCalls + 1
    /\ firstRequest' = IF turns > 0 THEN firstRequest
                       ELSE IF ResponseClass(parsed) = "getPaperDetails"
                       THEN "getPaperDetails" ELSE "other"
    /\ lastRequest' = ResponseClass(parsed)
    /\ lastGeneral' = GeneralMainIdea(parsed)
    /\ onlyCalls' = (onlyCalls /\ parsed.kind = "object"
                     /\ HasFunctionName(parsed))
    /\ UNCHANGED assistantMessage
    /\ IF parsed.kind # "object"
       THEN \* generateChatResponse threw, or reading a field of null threw
            /\ TurnError
            /\ UNCHANGED <<apiCallsMade, usedFunctions, finalAnswer,
                           toolsExecuted>>
       ELSE IF HasMainIdea(parsed) /\ ~HasFunctionCall(parsed)
       THEN /\ finalAnswer' = formatFinalAnswer(parsed)
            /\ lastPush' = <<>>
            /\ UNCHANGED <<apiCallsMade, usedFunctions, toolsExecuted, raised>>
       ELSE IF validateResponseStructure(parsed) # "valid"
       THEN /\ lastPush' = <<validateResponseStructure(parsed)>>
            /\ UNCHANGED <<apiCallsMade, usedFunctions, finalAnswer,
                           toolsExecuted, raised>>
       ELSE IF HasFunctionName(parsed)
       THEN IF CeilingReached
            THEN /\ lastPush' = <<"max_depth_reached">>
                 /\ finalAnswer' = formatFinalAnswer(parsed)
                 /\ UNCHANGED <<apiCallsMade, usedFunctions, toolsExecuted,
                                raised>>
            ELSE LET res == handleFunctionCall(parsed.fc, outcome) IN
                 /\ toolsExecuted' =
                        IF res = "rejected" THEN toolsExecuted
                        ELSE toolsExecuted + 1
                 /\ IF res \in {"rejected", "throws"}
                    THEN /\ TurnError
                         /\ UNCHANGED <<apiCallsMade, usedFunctions,
                                        finalAnswer>>
                    ELSE /\ usedFunctions' = usedFunctions \cup {parsed.fc}
                         /\ apiCallsMade' = apiCallsMade + 1
                         /\ lastPush' =
                               <<"function_result",
                                 IF parsed.fc = "searchKnowledgeBase"
                                    /\ res = "empty"
                                 THEN "no_results" ELSE "analyze_results">>
                         /\ UNCHANGED <<finalAnswer, raised>>
       ELSE /\ finalAnswer' = formatFinalAnswer(parsed)
            /\ lastPush' = <<>>
            /\ UNCHANGED <<apiCallsMade, usedFunctions, toolsExecuted, raised>>
    /\ messageHistory' = messageHistory \o lastPush'
    /\ apc' = IF raised' THEN "failed" ELSE "loop"

\* The tool's outcome is drawn only in a turn that calls a tool.
AgentTurn ==
    \E parsed \in Responses :
        \E outcome \in (IF CallsTool(parsed) THEN ToolOutcomes
                        ELSE {"results"}) :
            Turn(parsed, outcome)

\* After the loop: the fixed fallback when no answer was set, then
\* ChatMessage.create of the assistant message and res.json.
PersistAnswer ==
    /\ apc = "loop"
    /\ ~LoopCondition
    /\ finalAnswer' = IF finalAnswer = NoAnswer THEN FallbackAnswer
                      ELSE finalAnswer
    /\ assistantMessage' = finalAnswer'
    /\ apc' = "done"
    /\ UNCHANGED <<turns, apiCallsMade, usedFunctions, messageHistory,
                   raised, modelCalls, toolsExecuted, firstRequest,
                   lastRequest, onlyCalls, lastPush, lastGeneral>>

(***************************************************************************)
(* Rate limiter: src/src/migrations/add-tier-system.js                     *)
(***************************************************************************)
\* The model's scale: a window of WindowTicks ticks stands for
\* perMinutes * 60 * 1000 ms, MarginTicks for the 1000 ms added to a wait,
\* and the tiers' budgets keep their order (free < pro < enterprise).
WindowTicks == 3
MarginTicks == 1
FreeRequests == 2
NumCallers == 2
MaxTime == 5
MaxAcquisitions == 4

Tiers == {"free", "pro", "enterprise"}
Callers == 1..NumCallers

RATE_LIMIT ==
    [free       |-> [requests |-> FreeRequests,     window |-> WindowTicks],
     pro        |-> [requests |-> FreeRequests + 1, window |-> WindowTicks],
     enterprise |-> [requests |-> FreeRequests + 2, window |-> WindowTicks]]

\* The limiter after the module is loaded. The history of acquisitions
\* (acqLog, resetAt) is kept when record is TRUE.
LimiterStart(record) ==
    /\ recording = record
    /\ now = 0
    /\ requestCount = 0
    /\ lastRequestTime = 0
    /\ lpc = [c \in Callers |-> "idle"]
    /\ ltier = [c \in Callers |-> "free"]
    /\ wakeAt = [c \in Callers |-> 0]
    /\ acqLog = <<>>
    /\ resetAt = {}

LimiterInit == LimiterStart(TRUE)

\* The window of the tier has passed since lastRequestTime.
WindowExpired(tier) == now - lastRequestTime > RATE_LIMIT[tier].window

\* requestCount++ and return fn(): the acquisition is granted.
Grant(c, tier, count, resets) ==
    /\ requestCount' = count + 1
    /\ acqLog' = IF recording
                 THEN Append(acqLog, [time |-> now, tier |-> tier])
                 ELSE acqLog
    /\ resetAt' = IF recording THEN resets ELSE resetAt

\* rateLimitedCall up to its first suspension or its return.
Call(c, tier) ==
    /\ lpc[c] = "idle"
    /\ now <= MaxTime
    /\ recording => Len(acqLog) < MaxAcquisitions
    /\ LET expired == WindowExpired(tier)
           count == IF expired THEN 0 ELSE requestCount
           last == IF expired THEN now ELSE lastRequestTime
           resets == IF expired THEN resetAt \cup {Len(acqLog) + 1}
                     ELSE resetAt
       IN /\ lastRequestTime' = last
          /\ ltier' = [ltier EXCEPT ![c] = tier]
          /\ IF count >= RATE_LIMIT[tier].requests
             THEN /\ lpc' = [lpc EXCEPT ![c] = "waiting"]
                  /\ wakeAt' = [wakeAt EXCEPT ![c] =
                        now + (RATE_LIMIT[tier].window - (now - last))
                            + MarginTicks]
                  /\ requestCount' = count
                  /\ resetAt' = IF recording THEN resets ELSE resetAt
                  /\ UNCHANGED acqLog
             ELSE /\ Grant(c, tier, count, resets)
                  /\ UNCHANGED <<lpc, wakeAt>>
    /\ UNCHANGED <<now, recording>>

\* Wake without the reset of the counter: the loop test fails again while the
\* counter is at the limit and the caller stays suspended.
Wake_NoReset(c) ==
    /\ lpc[c] = "waiting"
    /\ now >= wakeAt[c]
    /\ IF requestCount >= RATE_LIMIT[ltier[c]].requests
       THEN UNCHANGED <<requestCount, lastRequestTime, lpc, wakeAt, acqLog,
                        resetAt>>
       ELSE /\ Grant(c, ltier[c], requestCount, resetAt)
            /\ lpc' = [lpc EXCEPT ![c] = "idle"]
            /\ UNCHANGED <<lastRequestTime, wakeAt>>
    /\ UNCHANGED <<now, ltier, recording>>

\* The timer of a suspended caller fires: the counter and the window start
\* are reset, the loop test is repeated and the acquisition is granted.
Wake(c) ==
    /\ lpc[c] = "waiting"
    /\ now >= wakeAt[c]
    /\ lastRequestTime' = now
    /\ IF 0 >= RATE_LIMIT[ltier[c]].requests
       THEN /\ wakeAt' = [wakeAt EXCEPT ![c] =
                            now + RATE_LIMIT[ltier[c]].window + MarginTicks]
            /\ requestCount' = 0
            /\ resetAt' = IF recording
                          THEN resetAt \cup {Len(acqLog) + 1}
                          ELSE resetAt
            /\ UNCHANGED <<lpc, acqLog>>
       ELSE /\ Grant(c, ltier[c], 0, resetAt \cup {Len(acqLog) + 1})
            /\ lpc' = [lpc EXCEPT ![c] = "idle"]
            /\ UNCHANGED wakeAt
    /\ UNCHANGED <<now, ltier, recording>>

\* Time passes: up to MaxTime, and beyond it for as long as a timer is
\* pending.
Tick ==
    /\ \/ now < MaxTime
       \/ \E c \in Callers : lpc[c] = "waiting" /\ now < wakeAt[c]
    /\ now' = now + 1
    /\ UNCHANGED <<requestCount, lastRequestTime, lpc, ltier, wakeAt, acqLog,
                   resetAt, recording>>

(***************************************************************************)
(* parseGeminiResponse: src/src/migrations/add-tier-system.js              *)
(* A response text is a sequence of tokens: "{" "}" ":" are themselves,    *)
(* "q" is a double quote, "a" a letter, "1" a digit, "n" the word null and *)
(* "f" a code fence (```).                                                 *)
(***************************************************************************)
MaxResponseLen == 5

Tokens == {"{", "}", "q", "a", ":", "1", "n", "f"}
ResponseTexts == UNION { [1..n -> Tokens] : n \in 0..MaxResponseLen }

ParseFail == [ok |-> FALSE, type |-> "error", next |-> 0]

\* Position after the string literal that opens at i (0: not a literal, or
\* unterminated): a quote, any tokens but a quote, a quote.
RECURSIVE ClosingQuote(_, _)
ClosingQuote(s, j) ==
    IF j > Len(s) THEN 0
    ELSE IF s[j] = "q" THEN j ELSE ClosingQuote(s, j + 1)

StringEnd(s, i) ==
    IF i > Len(s) \/ s[i] # "q" THEN 0
    ELSE IF ClosingQuote(s, i + 1) = 0 THEN 0
    ELSE ClosingQuote(s, i + 1) + 1

RECURSIVE DigitsEnd(_, _)
DigitsEnd(s, i) ==
    IF i <= Len(s) /\ s[i] = "1" THEN DigitsEnd(s, i + 1) ELSE i

\* A JSON value starting at position i: a number, null, a string, or an
\* object with no member or one member.
RECURSIVE ParseValueAt(_, _)
ParseValueAt(s, i) ==
    IF i > Len(s) THEN ParseFail
    ELSE IF s[i] = "1"
    THEN [ok |-> TRUE, type |-> "number", next |-> DigitsEnd(s, i)]
    ELSE IF s[i] = "n"
    THEN [ok |-> TRUE, type |-> "null", next |-> i + 1]
    ELSE IF s[i] = "q"
    THEN IF StringEnd(s, i) = 0 THEN ParseFail
         ELSE [ok |-> TRUE, type |-> "string", next |-> StringEnd(s, i)]
    ELSE IF s[i] = "{"
    THEN IF i + 1 <= Len(s) /\ s[i + 1] = "}"
         THEN [ok |-> TRUE, type |-> "object", next |-> i + 2]
         ELSE LET k == StringEnd(s, i + 1) IN
              IF k = 0 \/ k > Len(s) \/ s[k] # ":" THEN ParseFail
              ELSE LET v == ParseValueAt(s, k + 1) IN
                   IF ~v.ok \/ v.next > Len(s) \/ s[v.next] # "}"
                   THEN ParseFail
                   ELSE [ok |-> TRUE, type |-> "object", next |-> v.next + 1]
    ELSE ParseFail

\* JSON.parse: the type of the value, or "error" for a SyntaxError.
JSONparse(s) ==
    LET v == ParseValueAt(s, 1) IN
    IF v.ok /\ v.next = Len(s) + 1 THEN v.type ELSE "error"

\* The cleaning replace chain: code fences removed (the alphabet has no
\* control character and no white space to trim).
StripFences(s) == SelectSeq(s, LAMBDA t : t # "f")

Count(s, t) == Cardinality({ i \in 1..Len(s) : s[i] = t })

RECURSIVE Repeat(_, _)
Repeat(t, n) == IF n <= 0 THEN <<>> ELSE <<t>> \o Repeat(t, n - 1)

\* Strategy 1: close an unterminated string and unbalanced braces.
FixedJson(s) ==
    LET quoted == IF Count(s, "q") > 0 THEN Append(s, "q") ELSE s
        braced == quoted \o Repeat("}", Count(quoted, "{") - Count(quoted, "}"))
    IN StripFences(braced)

\* Strategy 2: the span from the first "{" to the last "}", if any.
BraceSpan(s) ==
    LET opens == { i \in 1..Len(s) : s[i] = "{" }
        closes == { i \in 1..Len(s) : s[i] = "}" }
    IN IF opens = {} \/ closes = {} THEN <<>>
       ELSE LET a == CHOOSE i \in opens : \A j \in opens : i <= j
                b == CHOOSE i \in closes : \A j \in closes : i >= j
            IN IF a < b THEN SubSeq(s, a, b) ELSE <<>>

\* Strategy 3: one match of the key-value pattern at position i: a quoted
\* non-empty key, a colon, and a string, digits, null or a span up to the
\* first "}". [end |-> 0] when the pattern does not match at i.
PairAt(s, i) ==
    LET k == StringEnd(s, i) IN
    IF k = 0 \/ k = i + 2 \/ k > Len(s) \/ s[k] # ":" \/ k + 1 > Len(s)
    THEN [end |-> 0, usable |-> FALSE]
    ELSE LET v == k + 1 IN
         IF s[v] = "q" /\ StringEnd(s, v) # 0
         THEN [end |-> StringEnd(s, v), usable |-> TRUE]
         ELSE IF s[v] = "1"
         THEN [end |-> DigitsEnd(s, v), usable |-> TRUE]
         ELSE IF s[v] = "n"
         THEN [end |-> v + 1, usable |-> TRUE]
         ELSE IF s[v] = "{" /\ \E j \in v + 1..Len(s) : s[j] = "}"
         THEN LET e == CHOOSE j \in v + 1..Len(s) :
                          s[j] = "}" /\ \A h \in v + 1..j - 1 : s[h] # "}"
              IN [end |-> e + 1,
                  usable |-> JSONparse(SubSeq(s, v, e)) # "error"]
         ELSE [end |-> 0, usable |-> FALSE]

\* The exec loop from position i on: whether some pair was kept.
RECURSIVE SomePairFrom(_, _)
SomePairFrom(s, i) ==
    IF i > Len(s) THEN FALSE
    ELSE IF PairAt(s, i).end = 0 THEN SomePairFrom(s, i + 1)
    ELSE PairAt(s, i).usable \/ SomePairFrom(s, PairAt(s, i).end)

Returned(type, stage) == [threw |-> FALSE, type |-> type, stage |-> stage]

\* parseGeminiResponse on a string: the direct parse, then the salvage
\* strategies in order, then the fallback object.
parseGeminiResponse(s) ==
    IF JSONparse(StripFences(s)) # "error"
    THEN Returned(JSONparse(StripFences(s)), "direct")
    ELSE IF JSONparse(FixedJson(s)) # "error"
    THEN Returned(JSONparse(FixedJson(s)), "repaired")
    ELSE IF BraceSpan(s) # <<>> /\ JSONparse(BraceSpan(s)) # "error"
    THEN Returned(JSONparse(BraceSpan(s)), "span")
    ELSE IF SomePairFrom(s, 1)
    THEN Returned("object", "pairs")
    ELSE Returned("object", "fallback")

NotParsed == [threw |-> FALSE, type |-> "none", stage |-> "none"]

ParseInit ==
    /\ ppc = "idle"
    /\ response = <<>>
    /\ parsedResult = NotParsed

\* The model's response text arrives.
ReceiveResponse ==
    /\ ppc = "idle"
    /\ response' \in ResponseTexts
    /\ ppc' = "received"
    /\ UNCHANGED parsedResult

ParseResponse ==
    /\ ppc = "received"
    /\ parsedResult' = parseGeminiResponse(response)
    /\ ppc' = "parsed"
    /\ UNCHANGED response

Min(a, b) == IF a < b THEN a ELSE b

\* The fallback keeps the first 500 characters of the raw text; the length
\* is scaled to the response lengths explored here.
PreviewLen == 4

Preview(s) == SubSeq(s, 1, Min(Len(s), PreviewLen))

FallbackObject_NoPreview(s) ==
    [kind |-> "object", fc |-> "none", thinking |-> FALSE, content |-> TRUE,
     main |-> 0, ev |-> 0, an |-> 0]

\* The safe fallback of parseGeminiResponse as the loop reads it:
\* function_call null, thinking_process null, and a content whose main_idea
\* is the preview of the raw text.
FallbackObject(s) ==
    [kind |-> "object", fc |-> "none", thinking |-> FALSE, content |-> TRUE,
     main |-> Len(Preview(s)), ev |-> 0, an |-> 0]

\* Any other value the parser returns for a text of this alphabet has none
\* of the fields the loop reads: a number, a string, or an object whose only
\* key is a short string.
FieldlessValue ==
    [kind |-> "object", fc |-> "none", thinking |-> FALSE, content |-> FALSE,
     main |-> 0, ev |-> 0, an |-> 0]

\* const parsed = parseGeminiResponse(rawResponse), as the loop reads it.
parsedReply(result, s) ==
    IF result.type = "null" THEN NullResponse
    ELSE IF result.stage = "fallback" THEN FallbackObject(s)
    ELSE FieldlessValue

\* The head of a turn: generateChatResponse returns the raw text and
\* parseGeminiResponse parses it.
GenerateReply ==
    /\ apc = "loop"
    /\ LoopCondition
    /\ ppc = "idle"
    /\ response' \in ResponseTexts
    /\ parsedResult' = parseGeminiResponse(response')
    /\ ppc' = "parsed"

\* The rest of the turn on that parsed value. The raw text goes out of scope
\* with the iteration; the parse result behind a final answer is kept.
TurnOnReply ==
    /\ ppc = "parsed"
    /\ Turn(parsedReply(parsedResult, response), "results")
    /\ ppc' = "idle"
    /\ response' = <<>>
    /\ parsedResult' = IF finalAnswer' = NoAnswer THEN NotParsed
                       ELSE parsedResult

(***************************************************************************)
(* The analysis pipeline of uploaded documents:                            *)
(* uploadPapers, processSinglePaper, processChunksWithGemini               *)
(* (src/unnamed/part_006) and analyzePaperChunks, processBatch,            *)
(* generateHierarchicalSummary, refineSummary                              *)
(* (src/src/migrations/add-tier-system.js).                                *)
(* Every uploaded file runs processSinglePaper; the runs interleave at     *)
(* their awaits. A model call is in flight from the moment it is issued    *)
(* until its promise settles.                                              *)
(***************************************************************************)
MaxChunks == 3

Documents == {"doc1", "doc2"}
batchSize == 2

\* Outcomes of the model calls. A batch call is "ok" (JSON with one entry per
\* chunk), "short" (JSON with an entry for the first chunk only) or "fails"
\* (rejected, or text that is not the expected JSON).
BatchOutcomes == {"ok", "short", "fails"}
FallbackOutcomes == {"ok", "fails"}
\* The hierarchical response: JSON with an overview, JSON without one (or with
\* an empty one), the JSON null, text that is not JSON but carries an
\* "overview" pair, other text, or a rejected call.
HierarchicalOutcomes ==
    {"overview", "no_overview", "null", "text_with_overview", "text", "fails"}
RefineOutcomes == {"ok", "fails"}

Hole == [summary |-> "", keywords |-> "none"]
NoDocument == [kind |-> "none", overview |-> ""]
Placeholder == [kind |-> "object", overview |-> "Processing in progress..."]

NumBatches(n) == (n + batchSize - 1) \div batchSize
BatchChunks(b, n) ==
    { k \in 1..n : k > (b - 1) * batchSize /\ k <= b * batchSize }

\* i > 0 ? chunkResults[i - 1]?.summary : null, for the batch that starts at
\* 0-based index i; "null" stands for null, undefined and the empty string.
previousSummary(d, i) ==
    IF i > 0 /\ chunkResults[d][i].summary # ""
    THEN chunkResults[d][i].summary
    ELSE "null"

\* summaries[j] of what processBatch returns (j counts from 0); Hole when
\* the response has no entry for the chunk.
processBatch(result, prev, j) ==
    IF result = "model" THEN [summary |-> "model", keywords |-> "some"]
    ELSE IF result = "short"
    THEN IF j = 0 THEN [summary |-> "model", keywords |-> "some"] ELSE Hole
    ELSE IF result = "fallback"
    THEN [summary |-> "fallback", keywords |-> "some"]
    ELSE [summary |-> IF prev = "null" THEN "Analysis failed" ELSE prev,
          keywords |-> "none"]

\* RATE_LIMIT[tier].delayBetweenChunks, in ms.
FreeDelay == 5000
ProDelay == 1000
EnterpriseDelay == 500
delayBetweenChunks ==
    [free |-> FreeDelay, pro |-> ProDelay, enterprise |-> EnterpriseDelay]

\* The wait of processChunksWithGemini after a batch that is not the last.
PipelineDelay == 1000

\* The waits inside one call of analyzePaperChunks on len chunks: the tier's
\* delay after each of its own batches of batchSize chunks but the last.
analyzeWaits(len, tier) ==
    [k \in 1..(NumBatches(len) - 1) |-> delayBetweenChunks[tier]]

\* merged of what processBatch returns: the model's merged_summary, the
\* fallback text, or previousSummary || "Analysis failed".
mergedSummary(result, prev) ==
    IF result \in {"model", "short"} THEN "merged"
    ELSE IF result = "fallback" THEN "fallback"
    ELSE IF prev = "null" THEN "Analysis failed" ELSE prev

\* What generateHierarchicalSummary returns.
generateHierarchicalSummary(outcome) ==
    IF outcome = "overview" THEN [kind |-> "object", overview |-> "text"]
    ELSE IF outcome = "no_overview" THEN [kind |-> "object", overview |-> ""]
    ELSE IF outcome = "null" THEN [kind |-> "null", overview |-> ""]
    ELSE [kind |-> "object", overview |-> "text"]

\* The texts of n chunks: all different, or the last chunk repeating the
\* text of the first.
ChunkTexts(n) ==
    {[k \in 1..n |-> k]} \cup
    (IF n >= 2 THEN {[k \in 1..n |-> IF k = n THEN 1 ELSE k]} ELSE {})

StoreOutcomes == {"ok", "fails"}

\* KnowledgeBase.updateOne({paper, "chunks.text": text}, {$set: {"chunks.$.
\* summary", "chunks.$.keywords"}}): the first stored chunk with that text
\* is updated.
updateOne(stored, text, value) ==
    IF \E i \in 1..Len(stored) : stored[i].text = text
    THEN LET first == CHOOSE i \in 1..Len(stored) :
                          /\ stored[i].text = text
                          /\ \A j \in 1..i - 1 : stored[j].text # text
         IN [stored EXCEPT ![first] = [text |-> text,
                                       summary |-> value.summary,
                                       keywords |-> value.keywords]]
    ELSE stored

\* The loop over the chunks of a batch: chunks lo..hi in order, a chunk
\* without an entry in the response is skipped.
RECURSIVE StoreBatch(_, _, _, _, _)
StoreBatch(stored, texts, results, lo, hi) ==
    IF lo > hi THEN stored
    ELSE StoreBatch(IF results[lo] # Hole
                    THEN updateOne(stored, texts[lo], results[lo])
                    ELSE stored,
                    texts, results, lo + 1, hi)


\* The processingProgress values of a run: 20 when the document is created,
\* 70 after the batch loop, 90 after the hierarchical summary, 100 with the
\* final update; 50 points are shared among the chunks, capped at 70.
StartProgress == 20
ChunkProgress == 50
LoopProgress == 70
HierarchicalProgress == 90
FinalProgress == 100

\* Math.round(x / n): the nearest integer, halves upwards.
Round(x, n) == (2 * x + n) \div (2 * n)

batchProgress_OfHundred(n, processed) == Round(100 * processed, n)

\* Math.min(70, Math.round(progress)) after the batch that ends with chunk
\* number processed of n: progress is 20 plus 50 / n for each chunk so far.
batchProgress(n, processed) ==
    Min(LoopProgress, Round(StartProgress * n + ChunkProgress * processed, n))

PipelineInit ==
    /\ dpc = [d \in Documents |-> "idle"]
    /\ nChunks = [d \in Documents |-> 0]
    /\ nextIndex = [d \in Documents |-> 0]
    /\ inFlight = [d \in Documents |-> {}]
    /\ chunkResults = [d \in Documents |-> <<>>]
    /\ hierarchicalSummary = [d \in Documents |-> NoDocument]
    /\ storedSummary = [d \in Documents |-> NoDocument]
    /\ aggregatedSummary = [d \in Documents |-> "none"]
    /\ chunkTexts = [d \in Documents |-> <<>>]
    /\ storedChunks = [d \in Documents |-> <<>>]
    /\ settled = [d \in Documents |-> {}]
    /\ pipelineRaised = [d \in Documents |-> FALSE]
    /\ storeFailed = [d \in Documents |-> FALSE]
    /\ batchFailed = [d \in Documents |-> FALSE]
    /\ progressLog = [d \in Documents |-> <<>>]
    /\ mergedSummaries = [d \in Documents |-> <<>>]
    /\ userTier = "free"
    /\ batchWaits = [d \in Documents |-> <<>>]
    /\ llmRequests = [d \in Documents |-> 0]
    /\ slotsAcquired = [d \in Documents |-> 0]

\* processSinglePaper up to the call of processChunksWithGemini: the text is
\* chunked and the placeholder knowledge base is created.
StartProcessing(d, n, texts) ==
    /\ dpc[d] = "idle"
    /\ chunkTexts' = [chunkTexts EXCEPT ![d] = texts]
    /\ storedChunks' = [storedChunks EXCEPT ![d] =
           [k \in 1..n |-> [text |-> texts[k], summary |-> "",
                            keywords |-> "none"]]]
    /\ dpc' = [dpc EXCEPT ![d] = "analysis"]
    /\ nChunks' = [nChunks EXCEPT ![d] = n]
    /\ chunkResults' = [chunkResults EXCEPT ![d] = [k \in 1..n |-> Hole]]
    /\ storedSummary' = [storedSummary EXCEPT ![d] = Placeholder]
    /\ aggregatedSummary' = [aggregatedSummary EXCEPT ![d] =
           "Analysis in progress..."]
    /\ progressLog' = [progressLog EXCEPT ![d] = <<StartProgress>>]
    /\ IF \A e \in Documents : dpc[e] = "idle"
       THEN userTier' \in Tiers
       ELSE UNCHANGED userTier
    /\ UNCHANGED <<mergedSummaries, batchWaits, llmRequests, slotsAcquired>>
    /\ UNCHANGED <<storeFailed, settled, nextIndex, inFlight,
                   hierarchicalSummary, pipelineRaised, batchFailed>>

\* requests calls of fastModel.generateContent are issued for the document,
\* slots of them through rateLimitedCall.
Issue(d, requests, slots) ==
    /\ llmRequests' = [llmRequests EXCEPT ![d] = @ + requests]
    /\ slotsAcquired' = [slotsAcquired EXCEPT ![d] = @ + slots]

BatchAwaited_Never(d) == TRUE

\* The loop body awaits analyzePaperChunks before the next iteration.
BatchAwaited(d) == inFlight[d] = {}

\* One iteration of the batch loop begins: the batch's model call is issued.
StartBatch(d) ==
    /\ dpc[d] = "analysis"
    /\ nextIndex[d] < nChunks[d]
    /\ BatchAwaited(d)
    /\ inFlight' = [inFlight EXCEPT ![d] = @ \cup
           {[batch |-> nextIndex[d] \div batchSize + 1,
             phase |-> "primary",
             prev |-> previousSummary(d, nextIndex[d]),
             result |-> "pending"]}]
    /\ nextIndex' = [nextIndex EXCEPT ![d] = @ + batchSize]
    /\ Issue(d, 1, 1)
    /\ UNCHANGED <<storeFailed, chunkTexts, storedChunks, aggregatedSummary,
                   settled, dpc, nChunks, chunkResults, hierarchicalSummary,
                   storedSummary, pipelineRaised, batchFailed, progressLog,
                   mergedSummaries, userTier, batchWaits>>

\* The batch's model call settles; on failure the fallback call is issued,
\* otherwise the integrated-summary call of analyzePaperChunks.
ResolveBatch(d, c, outcome) ==
    /\ c \in inFlight[d]
    /\ c.phase = "primary"
    /\ inFlight' = [inFlight EXCEPT ![d] = (@ \ {c}) \cup
           {IF outcome = "ok"
            THEN [c EXCEPT !.phase = "integrated", !.result = "model"]
            ELSE IF outcome = "short"
            THEN [c EXCEPT !.phase = "integrated", !.result = "short"]
            ELSE [c EXCEPT !.phase = "fallback"]}]
    /\ IF outcome \in {"ok", "short"} THEN Issue(d, 1, 1) ELSE Issue(d, 1, 0)
    /\ UNCHANGED <<storeFailed, chunkTexts, storedChunks, aggregatedSummary,
                   settled, dpc, nChunks, nextIndex, chunkResults,
                   hierarchicalSummary, storedSummary, pipelineRaised,
                   batchFailed, progressLog,
                   mergedSummaries, userTier, batchWaits>>

\* The fallback call settles; when it fails too the batch is degraded.
ResolveFallback(d, c, outcome) ==
    /\ c \in inFlight[d]
    /\ c.phase = "fallback"
    /\ inFlight' = [inFlight EXCEPT ![d] = (@ \ {c}) \cup
           {[c EXCEPT !.phase = "integrated",
                      !.result = IF outcome = "ok" THEN "fallback"
                                 ELSE "degraded"]}]
    /\ batchFailed' = [batchFailed EXCEPT ![d] = @ \/ outcome = "fails"]
    /\ Issue(d, 1, 1)
    /\ UNCHANGED <<storeFailed, chunkTexts, storedChunks, aggregatedSummary,
                   settled, dpc, nChunks, nextIndex, chunkResults,
                   hierarchicalSummary, storedSummary, pipelineRaised,
                   progressLog,
                   mergedSummaries, userTier, batchWaits>>

\* processSinglePaper's catch block: the paper and its knowledge base are
\* deleted and the run ends with an error result.
Rollback(d) ==
    /\ pipelineRaised' = [pipelineRaised EXCEPT ![d] = TRUE]
    /\ storedSummary' = [storedSummary EXCEPT ![d] = NoDocument]
    /\ aggregatedSummary' = [aggregatedSummary EXCEPT ![d] = "none"]
    /\ storedChunks' = [storedChunks EXCEPT ![d] = <<>>]
    /\ dpc' = [dpc EXCEPT ![d] = "failed"]

\* The integrated-summary call settles (its result is not used by the
\* document pipeline), analyzePaperChunks returns, and the results of the
\* batch are written to the store chunk by chunk, followed by the progress.
\* A rejected store operation leaves processChunksWithGemini as an
\* exception. After the last batch the hierarchical call is issued.
FinishBatch(d, c, storeOutcome) ==
    /\ c \in inFlight[d]
    /\ c.phase = "integrated"
    /\ chunkResults' = [chunkResults EXCEPT ![d] =
           [k \in 1..nChunks[d] |->
               IF k \in BatchChunks(c.batch, nChunks[d])
               THEN processBatch(c.result, c.prev,
                                 k - 1 - (c.batch - 1) * batchSize)
               ELSE @[k]]]
    /\ settled' = [settled EXCEPT ![d] =
           IF storeOutcome = "fails" THEN @ ELSE @ \cup {c.batch}]
    /\ storeFailed' = [storeFailed EXCEPT ![d] = @ \/ storeOutcome = "fails"]
    /\ mergedSummaries' = [mergedSummaries EXCEPT ![d] =
           Append(@, mergedSummary(c.result, c.prev))]
    /\ IF storeOutcome = "fails"
       THEN /\ Rollback(d)
            /\ inFlight' = [inFlight EXCEPT ![d] = {}]
            /\ UNCHANGED <<progressLog, batchWaits>>
            /\ Issue(d, 0, 0)
       ELSE /\ batchWaits' = [batchWaits EXCEPT ![d] =
                   @ \o analyzeWaits(Cardinality(
                                         BatchChunks(c.batch, nChunks[d])),
                                     userTier)
                     \o (IF nextIndex[d] < nChunks[d]
                         THEN <<PipelineDelay>> ELSE <<>>)]
            /\ progressLog' = [progressLog EXCEPT ![d] =
                   IF nextIndex[d] >= nChunks[d]
                   THEN @ \o <<batchProgress(nChunks[d],
                                   Min(c.batch * batchSize, nChunks[d])),
                               LoopProgress>>
                   ELSE Append(@, batchProgress(nChunks[d],
                                   Min(c.batch * batchSize, nChunks[d])))]
            /\ storedChunks' = [storedChunks EXCEPT ![d] =
                   StoreBatch(@, chunkTexts[d], chunkResults'[d],
                              (c.batch - 1) * batchSize + 1,
                              IF c.batch * batchSize < nChunks[d]
                              THEN c.batch * batchSize ELSE nChunks[d])]
            /\ inFlight' = [inFlight EXCEPT ![d] = @ \ {c}]
            /\ dpc' = [dpc EXCEPT ![d] =
                   IF nextIndex[d] >= nChunks[d] /\ inFlight'[d] = {}
                   THEN "hierarchical" ELSE @]
            /\ IF nextIndex[d] >= nChunks[d] /\ inFlight'[d] = {}
               THEN Issue(d, 1, 0) ELSE Issue(d, 0, 0)
            /\ UNCHANGED <<aggregatedSummary, storedSummary, pipelineRaised>>
    /\ UNCHANGED <<nChunks, nextIndex, hierarchicalSummary, chunkTexts,
                   batchFailed, userTier>>

\* hierarchicalSummary.overview: a TypeError when the summary is null.
ReadOverview(h) == IF h.kind = "null" THEN "TypeError" ELSE "value"

\* generateHierarchicalSummary returns. Reading the overview for
\* refineSummary throws on null, in the try block and again in its catch
\* block; processSinglePaper then rolls the document back. Otherwise the
\* refine call is issued.
ResolveHierarchical(d, outcome) ==
    /\ dpc[d] = "hierarchical"
    /\ hierarchicalSummary' = [hierarchicalSummary EXCEPT ![d] =
           generateHierarchicalSummary(outcome)]
    /\ IF ReadOverview(hierarchicalSummary'[d]) = "TypeError"
       THEN Rollback(d) /\ Issue(d, 0, 0)
       ELSE /\ dpc' = [dpc EXCEPT ![d] = "refine"]
            /\ Issue(d, 1, 0)
            /\ UNCHANGED <<pipelineRaised, storedSummary, aggregatedSummary,
                           storedChunks>>
    /\ progressLog' = [progressLog EXCEPT ![d] =
           Append(@, HierarchicalProgress)]
    /\ UNCHANGED <<mergedSummaries, userTier, batchWaits>>
    /\ UNCHANGED <<storeFailed, nChunks, nextIndex, inFlight, chunkResults,
                   settled, chunkTexts, batchFailed>>

\* refineSummary: the summary of the model's JSON, or its argument when the
\* call fails or the response is not JSON.
refineSummary(summary, outcome) ==
    IF outcome = "ok" THEN "refined" ELSE summary

\* refineSummary returns (it never throws), processChunksWithGemini returns
\* and processSinglePaper stores the summaries.
ResolveRefine(d, outcome) ==
    /\ dpc[d] = "refine"
    /\ aggregatedSummary' = [aggregatedSummary EXCEPT ![d] =
           refineSummary(IF hierarchicalSummary[d].overview # ""
                         THEN "overview" ELSE "allSummaries", outcome)]
    /\ storedSummary' = [storedSummary EXCEPT ![d] = hierarchicalSummary[d]]
    /\ dpc' = [dpc EXCEPT ![d] = "completed"]
    /\ progressLog' = [progressLog EXCEPT ![d] = Append(@, FinalProgress)]
    /\ UNCHANGED <<mergedSummaries, userTier, batchWaits, llmRequests,
                   slotsAcquired>>
    /\ UNCHANGED <<storeFailed, settled, nChunks, nextIndex, inFlight,
                   chunkResults, hierarchicalSummary, chunkTexts,
                   storedChunks, pipelineRaised, batchFailed>>

(***************************************************************************)
(* The chunker: chunkTextBySections and chunkTextBySize                    *)
(* (src/unnamed/part_006). A text is a sequence of characters. The texts   *)
(* are built from a few pieces, so the only section headings that occur    *)
(* are ABSTRACT and INTRODUCTION, and no text has a numbered heading.      *)
(***************************************************************************)
MaxPieces == 5
BodyLen == 50

MinSectionLen == 50

ABSTRACT == <<"A", "B", "S", "T", "R", "A", "C", "T">>
INTRODUCTION == <<"I", "N", "T", "R", "O", "D", "U", "C", "T", "I", "O", "N">>
NewLine == <<"\n">>
FooBar == <<"F", "o", "o", " ", "b", "a", "r", ".">>
BazQux == <<"B", "a", "z", " ", "q", "u", "x", ".">>
Body == [i \in 1..BodyLen |-> "x"]

Pieces == {ABSTRACT, INTRODUCTION, NewLine, FooBar, Body}

RECURSIVE Flatten(_)
Flatten(ps) == IF ps = <<>> THEN <<>> ELSE Head(ps) \o Flatten(Tail(ps))

\* "ABSTRACT\nFoo bar.\nINTRODUCTION\nBaz qux."
ScenarioText ==
    Flatten(<<ABSTRACT, NewLine, FooBar, NewLine, INTRODUCTION, NewLine,
              BazQux>>)

Texts ==
    { Flatten(ps) : ps \in UNION { [1..n -> Pieces] : n \in 1..MaxPieces } }
        \cup {ScenarioText}

FallbackSizes == {20, 60, 1000}

IsSpace(c) == c \in {"\n", " "}

RECURSIVE TrimStart(_)
TrimStart(s) ==
    IF s # <<>> /\ IsSpace(Head(s)) THEN TrimStart(Tail(s)) ELSE s

RECURSIVE TrimEnd(_)
TrimEnd(s) ==
    IF s # <<>> /\ IsSpace(s[Len(s)])
    THEN TrimEnd(SubSeq(s, 1, Len(s) - 1)) ELSE s

\* String.prototype.trim
Trim(s) == TrimEnd(TrimStart(s))

\* The first position from i on that holds no white space (Len + 1 if none).
RECURSIVE SkipSpace(_, _)
SkipSpace(s, i) ==
    IF i <= Len(s) /\ IsSpace(s[i]) THEN SkipSpace(s, i + 1) ELSE i

HasWordAt(s, i, w) ==
    i + Len(w) - 1 <= Len(s) /\ SubSeq(s, i, i + Len(w) - 1) = w

\* /\n\s*(?:WORD)\s*[:.\n]/ matches at position i.
HeadingAt(s, i, w) ==
    /\ s[i] = "\n"
    /\ HasWordAt(s, SkipSpace(s, i + 1), w)
    /\ LET k == SkipSpace(s, i + 1) + Len(w)
           p == SkipSpace(s, k)
       IN \/ p <= Len(s) /\ s[p] \in {":", "."}
          \/ \E m \in k..p - 1 : s[m] = "\n"

\* The section patterns whose words occur in the texts.
sectionPatterns == {ABSTRACT, INTRODUCTION}

\* text.match(pattern).index for every pattern that matches (0-based),
\* with 0 and text.length.
sectionBreaks(text) ==
    { i - 1 : i \in { j \in 1..Len(text) :
                        \E w \in sectionPatterns :
                            /\ HeadingAt(text, j, w)
                            /\ \A h \in 1..j - 1 : ~HeadingAt(text, h, w) } }
        \cup {0, Len(text)}

\* The end of the paragraph separator /\n\s*\n/ that starts at i, or 0.
SeparatorEnd(s, i) ==
    IF s[i] = "\n" /\ \E m \in i + 1..SkipSpace(s, i) - 1 : s[m] = "\n"
    THEN CHOOSE m \in i + 1..SkipSpace(s, i) - 1 :
             s[m] = "\n" /\ \A h \in m + 1..SkipSpace(s, i) - 1 : s[h] # "\n"
    ELSE 0

\* text.split(/\n\s*\n/), from position i with the paragraph starting at a.
RECURSIVE SplitFrom(_, _, _)
SplitFrom(s, a, i) ==
    IF i > Len(s) THEN <<SubSeq(s, a, Len(s))>>
    ELSE IF SeparatorEnd(s, i) # 0
    THEN <<SubSeq(s, a, i - 1)>>
             \o SplitFrom(s, SeparatorEnd(s, i) + 1, SeparatorEnd(s, i) + 1)
    ELSE SplitFrom(s, a, i + 1)

paragraphs(text) == SplitFrom(text, 1, 1)

\* The loop of chunkTextBySize over the paragraphs.
RECURSIVE FillChunks(_, _, _, _)
FillChunks(ps, chunkSize, currentChunk, acc) ==
    IF ps = <<>>
    THEN IF currentChunk # <<>> THEN Append(acc, Trim(currentChunk)) ELSE acc
    ELSE IF Len(currentChunk) + Len(Head(ps)) > chunkSize
            /\ Len(currentChunk) > 0
    THEN FillChunks(Tail(ps), chunkSize, Head(ps),
                    Append(acc, Trim(currentChunk)))
    ELSE FillChunks(Tail(ps), chunkSize,
                    currentChunk
                        \o (IF currentChunk # <<>> THEN <<"\n", "\n">>
                            ELSE <<>>)
                        \o Head(ps),
                    acc)

Slice(s, a, b) == SubSeq(s, a + 1, IF b < Len(s) THEN b ELSE Len(s))

chunkTextBySize(text, chunkSize) ==
    LET filled == FillChunks(paragraphs(text), chunkSize, <<>>, <<>>) IN
    IF Len(filled) <= 1 /\ Len(text) > chunkSize
    THEN [i \in 1..(Len(text) + chunkSize - 1) \div chunkSize |->
             Trim(Slice(text, (i - 1) * chunkSize, i * chunkSize))]
    ELSE filled

\* The loop of chunkTextBySections over the sorted section breaks.
RECURSIVE SectionChunks(_, _, _, _)
SectionChunks(text, breaks, start, fallbackChunkSize) ==
    IF \A b \in breaks : b <= start THEN <<>>
    ELSE LET end == CHOOSE b \in breaks :
                        b > start /\ \A c \in breaks : c > start => b <= c
             section == Trim(Slice(text, start, end))
         IN (IF Len(section) < MinSectionLen THEN <<>>
             ELSE IF Len(section) > fallbackChunkSize
             THEN chunkTextBySize(section, fallbackChunkSize)
             ELSE <<section>>)
            \o SectionChunks(text, breaks, end, fallbackChunkSize)

chunkTextBySections(text, fallbackChunkSize) ==
    LET chunks == SectionChunks(text, sectionBreaks(text), 0,
                                fallbackChunkSize)
    IN IF Len(chunks) <= 1 THEN chunkTextBySize(text, fallbackChunkSize)
       ELSE chunks

ChunkerInit ==
    /\ cpc = "idle"
    /\ chunkerText = <<>>
    /\ fallbackSize = 0
    /\ chunkerResult = <<>>

\* A text is extracted from an uploaded file.
ExtractText ==
    /\ cpc = "idle"
    /\ chunkerText' \in Texts
    /\ fallbackSize' \in FallbackSizes
    /\ cpc' = "extracted"
    /\ UNCHANGED chunkerResult

ChunkText ==
    /\ cpc = "extracted"
    /\ chunkerResult' = chunkTextBySections(chunkerText, fallbackSize)
    /\ cpc' = "chunked"
    /\ UNCHANGED <<chunkerText, fallbackSize>>

(***************************************************************************)
(* searchKnowledgeBase (src/src/migrations/add-tier-system.js): the        *)
(* cascade of full-text search, AND-match, per-term OR-match and           *)
(* first-chunk fallback over the chunks of one document. A chunk is the    *)
(* set of query terms its text contains as case-insensitive substrings; a  *)
(* result is the position of a chunk in the document.                      *)
(***************************************************************************)
MaxDocChunks == 2
MaxQueryTerms == 2
MaxMaxResults == 3

MinTermLength == 3

SearchTerms == {"cat", "model", "graph"}
TermLength(t) == IF t = "cat" THEN 3 ELSE 5

DocChunks == UNION { [1..n -> SUBSET SearchTerms] : n \in 0..MaxDocChunks }
Queries == UNION { [1..n -> SearchTerms] : n \in 1..MaxQueryTerms }

\* query.split(/\s+/).filter((term) => term.length > 3)
queryTerms(query) == SelectSeq(query, LAMBDA t : TermLength(t) > MinTermLength)

Limit(s, n) == IF Len(s) > n THEN SubSeq(s, 1, n) ELSE s

RECURSIVE Matching(_, _, _)
\* The chunks from position i on whose text contains every term of terms.
Matching(chunks, terms, i) ==
    IF i > Len(chunks) THEN <<>>
    ELSE (IF \A j \in 1..Len(terms) : terms[j] \in chunks[i]
          THEN <<i>> ELSE <<>>) \o Matching(chunks, terms, i + 1)

\* Stage 1: the document matches the full-text query or not (the text index
\* decides); a matching document is unwound into its chunks.
fullTextStage(chunks, matches, maxResults) ==
    IF matches THEN Limit([i \in 1..Len(chunks) |-> i], maxResults) ELSE <<>>

\* Stage 2: the chunks matching every term.
andStage(chunks, terms, maxResults) ==
    Limit(Matching(chunks, terms, 1), maxResults)

\* Stage 3: for each term the first chunk matching it.
RECURSIVE orStage(_, _)
orStage(chunks, terms) ==
    IF terms = <<>> THEN <<>>
    ELSE Limit(Matching(chunks, <<Head(terms)>>, 1), 1)
             \o orStage(chunks, Tail(terms))

firstChunk_None(chunks) == <<>>

\* Stage 4: the first chunk of the document, if it has one.
firstChunk(chunks) == IF Len(chunks) > 0 THEN <<1>> ELSE <<>>

Found(stage, results) == [stage |-> stage, results |-> results]

\* $limit rejects a limit that is not positive.
searchKnowledgeBase(chunks, query, maxResults, matches) ==
    IF maxResults <= 0 THEN Found("error", <<>>)
    ELSE IF fullTextStage(chunks, matches, maxResults) # <<>>
    THEN Found("full_text", fullTextStage(chunks, matches, maxResults))
    ELSE IF queryTerms(query) # <<>>
            /\ andStage(chunks, queryTerms(query), maxResults) # <<>>
    THEN Found("and", andStage(chunks, queryTerms(query), maxResults))
    ELSE IF queryTerms(query) # <<>>
            /\ orStage(chunks, queryTerms(query)) # <<>>
    THEN Found("or", orStage(chunks, queryTerms(query)))
    ELSE Found("fallback", firstChunk(chunks))

SearchInit ==
    /\ spc = "idle"
    /\ searchChunks = <<>>
    /\ searchQuery = <<>>
    /\ searchMaxResults = 0
    /\ fullTextMatches = FALSE
    /\ searchResult = Found("none", <<>>)

\* A search is requested on a stored document.
RequestSearch ==
    /\ spc = "idle"
    /\ searchChunks' \in DocChunks
    /\ searchQuery' \in Queries
    /\ searchMaxResults' \in 0..MaxMaxResults
    /\ fullTextMatches' \in BOOLEAN
    /\ spc' = "requested"
    /\ UNCHANGED searchResult

RunSearch ==
    /\ spc = "requested"
    /\ searchResult' = searchKnowledgeBase(searchChunks, searchQuery,
                                           searchMaxResults, fullTextMatches)
    /\ spc' = "returned"
    /\ UNCHANGED <<searchChunks, searchQuery, searchMaxResults,
                   fullTextMatches>>

(***************************************************************************)
(* The retrieval tools and their caches: callFunctionByName and            *)
(* FUNCTION_HANDLERS (src/src/migrations/add-tier-system.js), the          *)
(* priming of processChatMessage and chatUploadPaper                       *)
(* (src/src/controllers/paperChat.controller.js), processSinglePaper,      *)
(* deletePaper and updatePaperMetadata (src/unnamed/part_006).             *)
(* A document identifier is issued once, in a fixed order. The details of  *)
(* a document are its title and whether the analysis has written its       *)
(* summary. memoryCache maps a user and a document to the object           *)
(* callFunctionByName keeps for them; a missing entry and the empty object *)
(* {} it is created as read the same.                                      *)
(***************************************************************************)
MaxMessages == 2

DefaultMaxResults == 3
DefaultLimit == 5

Users == {"u1", "u2"}
\* The account that uploads documents; the other account owns none.
Uploaders == {"u1"}
PaperIds == {"p1", "p2"}
\* The identifiers of the store: those, and a third one for the sessions
\* with a document that a conversation does not involve.
StoreIds == {"p1", "p2", "p3"}
\* The store issues the identifiers in this order.
IdOrder == <<"p1", "p2", "p3">>
\* The titles a document is given: the file name at upload, another by an
\* update of its metadata.
Titles == {"file name", "new title"}
ToolNames == {"getPaperDetails", "searchKnowledgeBase", "getChatHistory"}

\* The chunks a document is cut into, and the questions asked about it.
ToolChunks == <<{"graph"}, {"cat", "graph"}, {"graph"}>>
ToolQueries == {<<"graph">>}

\* A parameter of a tool call: given with a value, or left out (undefined).
Given(v) == [given |-> TRUE, value |-> v]
Omitted == [given |-> FALSE, value |-> 0]
MaxResultsParams == {Omitted, Given(1), Given(DefaultMaxResults)}
LimitParams == {Omitted} \cup {Given(n) : n \in 1..MaxMessages}

NoPaper == [user |-> "nobody", title |-> "file name", summary |-> FALSE]
NoDetails == [paper |-> "none", title |-> "file name", summary |-> FALSE]
NoResults == [present |-> FALSE, results |-> <<>>]
NoPaperCache == [hasChatHistory |-> FALSE, count |-> 0]
\* The parameters of a call; matches is the answer of the text index to
\* the query.
NoParams == [query |-> <<>>, maxResults |-> Omitted, limit |-> Omitted,
             matches |-> FALSE]

\* The parameters a caller passes to each tool.
ToolParams(name) ==
    IF name = "searchKnowledgeBase"
    THEN {[NoParams EXCEPT !.query = q, !.maxResults = n, !.matches = b] :
              q \in ToolQueries, n \in MaxResultsParams, b \in BOOLEAN}
    ELSE IF name = "getChatHistory"
    THEN {[NoParams EXCEPT !.limit = l] : l \in LimitParams}
    ELSE {NoParams}

\* FUNCTION_HANDLERS.getPaperDetails: Paper.findOne({_id, user}).
getPaperDetails(paperId, userId) ==
    IF papers[paperId] # NoPaper /\ papers[paperId].user = userId
    THEN [outcome |-> "returned",
          details |-> [paper |-> paperId, title |-> papers[paperId].title,
                       summary |-> papers[paperId].summary]]
    ELSE [outcome |-> "NotFound", details |-> NoDetails]

\* FUNCTION_HANDLERS.getChatHistory: the newest messages of the document and
\* the user, at most limit of them.
getChatHistory(paperId, userId, limit) ==
    Min(chatMessages[<<paperId, userId>>], limit)

\* The searchKnowledgeBase branch of callFunctionByName over a given state
\* of the search cache. A maxResults left out is undefined:
\* cached.length >= undefined is false, and the handler defaults it to 3.
searchThroughCache(cache, paperId, query, maxResults, matches) ==
    LET queryKey == <<paperId, query>>
        cached == cache[queryKey]
        result == searchKnowledgeBase(knowledgeBases[paperId], query,
                      IF maxResults.given THEN maxResults.value
                      ELSE DefaultMaxResults, matches).results
    IN  IF /\ cached.present
           /\ maxResults.given
           /\ Len(cached.results) >= maxResults.value
        THEN [fromCache |-> TRUE,
              results |-> Limit(cached.results, maxResults.value),
              cache |-> cache]
        ELSE [fromCache |-> FALSE,
              results |-> result,
              cache |-> [cache EXCEPT
                            ![queryKey] = [present |-> TRUE,
                                           results |-> result]]]

\* The identifier the store gives to the next document.
IsNextId(paperId) ==
    \E i \in 1..Len(IdOrder) :
        /\ IdOrder[i] = paperId
        /\ issuedIds = {IdOrder[j] : j \in 1..(i - 1)}

ToolsInit ==
    /\ papers = [p \in StoreIds |-> NoPaper]
    /\ issuedIds = {}
    /\ knowledgeBases = [p \in StoreIds |-> <<>>]
    /\ chatMessages = [k \in StoreIds \X Users |-> 0]
    /\ PAPER_CONTEXT_CACHE = [p \in StoreIds |-> NoDetails]
    /\ SEARCH_RESULT_CACHE = [k \in StoreIds \X ToolQueries |-> NoResults]
    /\ memoryCache = [k \in Users \X StoreIds |-> NoPaperCache]
    /\ primingLog = <<>>

\* The getPaperDetails branch of callFunctionByName over a given state of
\* the paper-context cache: what it returns and the cache it leaves. A
\* handler that throws leaves the cache as it was.
detailsThroughCache(cache, paperId, userId) ==
    LET result == getPaperDetails(paperId, userId) IN
    IF cache[paperId] # NoDetails
    THEN [outcome |-> "returned", fromCache |-> TRUE,
          details |-> cache[paperId], cache |-> cache]
    ELSE [outcome |-> result.outcome, fromCache |-> FALSE,
          details |-> result.details,
          cache |-> IF result.outcome = "returned"
                    THEN [cache EXCEPT ![paperId] = result.details]
                    ELSE cache]

\* The getChatHistory branch of callFunctionByName: params.limit || 5. A
\* cached array, even an empty one, is truthy.
historyThroughCache(cache, paperId, userId, limit) ==
    LET paperCache == cache[<<userId, paperId>>]
        result == getChatHistory(paperId, userId,
                      IF limit.given THEN limit.value ELSE DefaultLimit)
    IN  IF paperCache.hasChatHistory
        THEN [fromCache |-> TRUE, count |-> paperCache.count,
              cache |-> cache]
        ELSE [fromCache |-> FALSE, count |-> result,
              cache |-> [cache EXCEPT
                            ![<<userId, paperId>>] =
                                [hasChatHistory |-> TRUE,
                                 count |-> result]]]

callGetPaperDetails(paperId, userId) ==
    /\ PAPER_CONTEXT_CACHE' =
           detailsThroughCache(PAPER_CONTEXT_CACHE, paperId, userId).cache
    /\ UNCHANGED <<papers, issuedIds, knowledgeBases, chatMessages,
                   SEARCH_RESULT_CACHE, memoryCache, primingLog>>

callSearchKnowledgeBase(paperId, userId, query, maxResults, matches) ==
    /\ SEARCH_RESULT_CACHE' =
           searchThroughCache(SEARCH_RESULT_CACHE, paperId, query,
                              maxResults, matches).cache
    /\ UNCHANGED <<papers, issuedIds, knowledgeBases, chatMessages,
                   PAPER_CONTEXT_CACHE, memoryCache, primingLog>>

callGetChatHistory(paperId, userId, limit) ==
    /\ memoryCache' =
           historyThroughCache(memoryCache, paperId, userId, limit).cache
    /\ UNCHANGED <<papers, issuedIds, knowledgeBases, chatMessages,
                   PAPER_CONTEXT_CACHE, SEARCH_RESULT_CACHE, primingLog>>

\* The three tools of callFunctionByName.
callFunctionByName(name, paperId, userId, params) ==
    \/ /\ name = "getPaperDetails"
       /\ callGetPaperDetails(paperId, userId)
    \/ /\ name = "searchKnowledgeBase"
       /\ callSearchKnowledgeBase(paperId, userId, params.query,
                                  params.maxResults, params.matches)
    \/ /\ name = "getChatHistory"
       /\ callGetChatHistory(paperId, userId, params.limit)

\* processSinglePaper: the knowledge base with the chunks and the document
\* are created and the analysis writes the summary.
processSinglePaper(paperId, userId) ==
    /\ IsNextId(paperId)
    /\ issuedIds' = issuedIds \cup {paperId}
    /\ papers' = [papers EXCEPT ![paperId] =
                     [user |-> userId, title |-> "file name", summary |-> TRUE]]
    /\ knowledgeBases' = [knowledgeBases EXCEPT ![paperId] = ToolChunks]
    /\ UNCHANGED <<chatMessages, PAPER_CONTEXT_CACHE, SEARCH_RESULT_CACHE,
                   memoryCache, primingLog>>

updatePaperMetadata(paperId, userId, title) ==
    /\ papers[paperId] # NoPaper
    /\ papers[paperId].user = userId
    /\ papers' = [papers EXCEPT ![paperId].title = title]
    /\ UNCHANGED <<issuedIds, knowledgeBases, chatMessages,
                   PAPER_CONTEXT_CACHE, SEARCH_RESULT_CACHE, memoryCache,
                   primingLog>>

deletePaper(paperId, userId) ==
    /\ papers[paperId] # NoPaper
    /\ papers[paperId].user = userId
    /\ chatMessages' = [k \in StoreIds \X Users |->
                           IF k[1] = paperId THEN 0 ELSE chatMessages[k]]
    /\ knowledgeBases' = [knowledgeBases EXCEPT ![paperId] = <<>>]
    /\ papers' = [papers EXCEPT ![paperId] = NoPaper]
    /\ UNCHANGED <<issuedIds, PAPER_CONTEXT_CACHE, SEARCH_RESULT_CACHE,
                   memoryCache, primingLog>>

\* chatUploadPaper on a message of the user that refers to chatPaper: the
\* new document newPaper is created without a knowledge base, the
\* paper-context entry under the new document's identifier is deleted, the
\* search cache is emptied and the message is moved to the new document.
chatUploadPaper(chatPaper, userId, newPaper) ==
    /\ chatMessages[<<chatPaper, userId>>] > 0
    /\ IsNextId(newPaper)
    /\ issuedIds' = issuedIds \cup {newPaper}
    /\ papers' = [papers EXCEPT ![newPaper] =
                     [user |-> userId, title |-> "file name", summary |-> FALSE]]
    /\ PAPER_CONTEXT_CACHE' = [PAPER_CONTEXT_CACHE EXCEPT
                                  ![newPaper] = NoDetails]
    /\ SEARCH_RESULT_CACHE' = [k \in StoreIds \X ToolQueries |-> NoResults]
    /\ chatMessages' = [chatMessages EXCEPT
                           ![<<chatPaper, userId>>] = @ - 1,
                           ![<<newPaper, userId>>] = @ + 1]
    /\ UNCHANGED <<knowledgeBases, memoryCache, primingLog>>

\* One step of the priming: the tool, the query, whether the value came
\* from a cache read of processChatMessage or from callFunctionByName, and
\* whether it was empty.
Primed(tool, query, cached, empty) ==
    [tool |-> tool, query |-> query, cached |-> cached, empty |-> empty]

\* The split search of the priming: the terms of the question one by one,
\* until a term has a cache entry or a search finds something. The result
\* is the cache it leaves and the steps it made.
RECURSIVE primeTerms(_, _, _, _)
primeTerms(cache, paperId, terms, matches) ==
    IF terms = <<>> THEN [cache |-> cache, log |-> <<>>]
    ELSE IF cache[<<paperId, <<Head(terms)>>>>].present
    THEN [cache |-> cache,
          log |-> <<Primed("searchKnowledgeBase", <<Head(terms)>>, TRUE,
                           cache[<<paperId, <<Head(terms)>>>>].results = <<>>)>>]
    ELSE LET call == searchThroughCache(cache, paperId, <<Head(terms)>>,
                                        Omitted, matches)
             rest == primeTerms(call.cache, paperId, Tail(terms), matches)
             step == Primed("searchKnowledgeBase", <<Head(terms)>>, FALSE,
                            call.results = <<>>)
         IN  IF call.results # <<>>
             THEN [cache |-> call.cache, log |-> <<step>>]
             ELSE [cache |-> rest.cache, log |-> <<step>> \o rest.log]

\* processChatMessage up to the conversation loop: the ownership check, the
\* user's message, and the priming of the context from the caches or
\* through callFunctionByName.
processChatMessage(paperId, userId, question, matches) ==
    LET primed == PAPER_CONTEXT_CACHE[paperId] # NoDetails
        hit == SEARCH_RESULT_CACHE[<<paperId, question>>].present
        call == searchThroughCache(SEARCH_RESULT_CACHE, paperId, question,
                                   Omitted, matches)
        split == primeTerms(call.cache, paperId, queryTerms(question),
                            matches)
    IN
    /\ papers[paperId] # NoPaper
    /\ papers[paperId].user = userId
    /\ chatMessages[<<paperId, userId>>] < MaxMessages
    /\ chatMessages' = [chatMessages EXCEPT ![<<paperId, userId>>] = @ + 1]
    /\ PAPER_CONTEXT_CACHE' =
           IF primed THEN PAPER_CONTEXT_CACHE
           ELSE detailsThroughCache(PAPER_CONTEXT_CACHE, paperId,
                                    userId).cache
    /\ SEARCH_RESULT_CACHE' =
           IF hit THEN SEARCH_RESULT_CACHE
           ELSE IF call.results # <<>> THEN call.cache
           ELSE split.cache
    /\ primingLog' =
           <<Primed("getPaperDetails", <<>>, primed, FALSE)>> \o
           (IF hit
            THEN <<Primed("searchKnowledgeBase", question, TRUE,
                          SEARCH_RESULT_CACHE[<<paperId, question>>].results
                              = <<>>)>>
            ELSE <<Primed("searchKnowledgeBase", question, FALSE,
                          call.results = <<>>)>> \o
                 (IF call.results # <<>> THEN <<>> ELSE split.log))
    /\ UNCHANGED <<papers, issuedIds, knowledgeBases, memoryCache>>

(***************************************************************************)
(* uploadPapers and the store operations of processSinglePaper             *)
(* (src/unnamed/part_006): the tier validation, the concurrent runs of     *)
(* processSinglePaper over the files of one request, the rollback of its   *)
(* catch block, the usage update and the response. A store operation or    *)
(* the analysis either succeeds or is rejected.                            *)
(***************************************************************************)
MaxFiles == 2
MonthlyUploads == 3
ConcurrentPapers == 2

Files == 1..MaxFiles

NoResponse == [success |-> 0, failed |-> 0, papers |-> 0, errors |-> 0]

UploadInit ==
    /\ upc = "idle"
    /\ uploadFiles = {}
    /\ fpc = [f \in Files |-> "idle"]
    /\ paperVar = [f \in Files |-> FALSE]
    /\ paperDoc = [f \in Files |-> "none"]
    /\ kbDoc = [f \in Files |-> "none"]
    /\ finalPending = [f \in Files |-> {}]
    /\ fileResult = [f \in Files |-> "none"]
    /\ usageAtRequest = 0
    /\ currentMonthUploads = 0
    /\ uploadResponse = NoResponse

\* Math.min(remainingUploads, user.uploadLimits.concurrentPapers)
maxAllowed(used) == Min(MonthlyUploads - used, ConcurrentPapers)

\* uploadPapers up to the start of the runs: the request of a user who has
\* used some of the month's uploads is rejected with 413 when it has more
\* files than allowed; otherwise processSinglePaper starts on every file.
UploadRequest(n, used) ==
    /\ upc = "idle"
    /\ usageAtRequest' = used
    /\ currentMonthUploads' = used
    /\ uploadFiles' = 1..n
    /\ IF n > maxAllowed(used)
       THEN /\ upc' = "rejected"
            /\ UNCHANGED fpc
       ELSE /\ upc' = "processing"
            /\ fpc' = [f \in Files |-> IF f <= n THEN "extract" ELSE "idle"]
    /\ UNCHANGED <<paperVar, paperDoc, kbDoc, finalPending, fileResult,
                   uploadResponse>>

\* The steps of the try block before the final updates, in order.
AfterStep(step) ==
    CASE step = "extract" -> "createKB"
      [] step = "createKB" -> "createPaper"
      [] step = "createPaper" -> "link"
      [] step = "link" -> "progress"
      [] step = "progress" -> "analyze"
      [] step = "analyze" -> "final"
      [] step = "populate" -> "returned"

\* KnowledgeBase.deleteOne({paper: paper._id}) matches the knowledge base
\* only once its paper field holds the id.
deleteOne(kb) == IF kb \in {"placeholder", "final"} THEN "none" ELSE kb

\* The catch block: when paper is assigned, the Paper and the knowledge
\* base matching it are deleted; the run returns an error result.
CatchFailure(f) ==
    /\ paperDoc' = [paperDoc EXCEPT ![f] = IF paperVar[f] THEN "none" ELSE @]
    /\ kbDoc' = [kbDoc EXCEPT ![f] =
           IF paperVar[f] THEN deleteOne(@) ELSE @]
    /\ fileResult' = [fileResult EXCEPT ![f] = "error"]
    /\ finalPending' = [finalPending EXCEPT ![f] = {}]
    /\ fpc' = [fpc EXCEPT ![f] = "returned"]
    /\ UNCHANGED paperVar

\* One awaited step of processSinglePaper on file f: reading and chunking
\* the file, KnowledgeBase.create, Paper.create, the link of the knowledge
\* base to the paper, the progress update, processChunksWithGemini, and
\* the read of the populated paper that is returned.
FileStep(f, ok) ==
    /\ upc = "processing"
    /\ fpc[f] \in {"extract", "createKB", "createPaper", "link", "progress",
                   "analyze", "populate"}
    /\ IF ~ok THEN CatchFailure(f)
       ELSE /\ fpc' = [fpc EXCEPT ![f] = AfterStep(@)]
            /\ kbDoc' = [kbDoc EXCEPT ![f] =
                   IF fpc[f] = "createKB" THEN "unlinked"
                   ELSE IF fpc[f] = "link" THEN "placeholder" ELSE @]
            /\ paperDoc' = [paperDoc EXCEPT ![f] =
                   IF fpc[f] = "createPaper" THEN "analyzing" ELSE @]
            /\ paperVar' = [paperVar EXCEPT ![f] =
                   @ \/ fpc[f] = "createPaper"]
            /\ finalPending' = [finalPending EXCEPT ![f] =
                   IF fpc[f] = "analyze" THEN {"paper", "kb"} ELSE @]
            /\ fileResult' = [fileResult EXCEPT ![f] =
                   IF fpc[f] = "populate" THEN "paper" ELSE @]
    /\ UNCHANGED <<upc, uploadFiles, usageAtRequest, currentMonthUploads,
                   uploadResponse>>

\* One of the two final updates under Promise.all settles: the Paper update
\* (summary, keywords, status "completed", progress 100) or the knowledge
\* base update (the summaries). The first rejection leaves the try block.
FinalUpdates(f, w, ok) ==
    /\ upc = "processing"
    /\ fpc[f] = "final"
    /\ w \in finalPending[f]
    /\ IF ~ok THEN CatchFailure(f)
       ELSE /\ paperDoc' = [paperDoc EXCEPT ![f] =
                   IF w = "paper" THEN "completed" ELSE @]
            /\ kbDoc' = [kbDoc EXCEPT ![f] = IF w = "kb" THEN "final" ELSE @]
            /\ finalPending' = [finalPending EXCEPT ![f] = @ \ {w}]
            /\ fpc' = [fpc EXCEPT ![f] =
                   IF finalPending[f] = {w} THEN "populate" ELSE @]
            /\ UNCHANGED <<paperVar, fileResult>>
    /\ UNCHANGED <<upc, uploadFiles, usageAtRequest, currentMonthUploads,
                   uploadResponse>>

\* results.filter((r) => r.status === "fulfilled").length: a run that
\* returns, with a paper or with an error, is fulfilled.
successfulUploads(results) ==
    Cardinality({f \in DOMAIN results : results[f] \in {"paper", "error"}})

\* uploadPapers after Promise.allSettled: the usage is raised by the number
\* of fulfilled runs and the response is built.
Respond ==
    /\ upc = "processing"
    /\ \A f \in uploadFiles : fpc[f] = "returned"
    /\ LET results == [f \in uploadFiles |-> fileResult[f]] IN
       /\ currentMonthUploads' =
              currentMonthUploads + successfulUploads(results)
       /\ uploadResponse' =
              [success |-> successfulUploads(results),
               failed |-> Cardinality(uploadFiles)
                              - successfulUploads(results),
               papers |-> Cardinality({f \in uploadFiles :
                                          results[f] = "paper"}),
               errors |-> Cardinality({f \in uploadFiles :
                                          results[f] # "paper"})]
    /\ upc' = "responded"
    /\ UNCHANGED <<uploadFiles, fpc, paperVar, paperDoc, kbDoc, finalPending,
                   fileResult, usageAtRequest>>

Init ==
    /\ AgentInit /\ LimiterInit /\ ParseInit /\ PipelineInit /\ ChunkerInit
    /\ SearchInit
    /\ ToolsInit /\ UploadInit

AgentNext ==
    \/ ContextPriming /\ UNCHANGED exceptAgent
    \/ AgentTurn /\ UNCHANGED exceptAgent
    \/ PersistAnswer /\ UNCHANGED exceptAgent

SpecAgent == Init /\ [][AgentNext]_vars

LimiterNext ==
    \/ \E c \in Callers, tier \in Tiers :
           Call(c, tier) /\ UNCHANGED exceptLimiter
    \/ \E c \in Callers : Wake(c) /\ UNCHANGED exceptLimiter
    \/ Tick /\ UNCHANGED exceptLimiter

SpecLimiter == Init /\ [][LimiterNext]_vars

\* The initial state with the limiter's history not kept.
InitUnrecorded ==
    /\ AgentInit /\ LimiterStart(FALSE) /\ ParseInit /\ PipelineInit
    /\ ChunkerInit /\ SearchInit /\ ToolsInit /\ UploadInit

\* The limiter under fair timers: time does not stop and a timer that is due
\* fires. The calls are not limited in number; the history is not kept.
SpecLimiterFair ==
    /\ InitUnrecorded
    /\ [][LimiterNext]_vars
    /\ WF_vars(Tick /\ UNCHANGED exceptLimiter)
    /\ \A c \in Callers : WF_vars(Wake(c) /\ UNCHANGED exceptLimiter)

\* The chat loop on parsed response texts.
ReplyNext ==
    \/ ContextPriming /\ UNCHANGED exceptAgent
    \/ GenerateReply /\ UNCHANGED exceptParse
    \/ TurnOnReply /\ UNCHANGED <<limVars, pipeVars, chunkerVars, searchVars,
                                  toolVars, uploadVars>>
    \/ PersistAnswer /\ UNCHANGED exceptAgent

SpecReply == Init /\ [][ReplyNext]_vars

UploadNext ==
    \/ \E n \in 1..MaxFiles, used \in 0..MonthlyUploads :
           UploadRequest(n, used) /\ UNCHANGED exceptUpload
    \/ \E f \in Files, ok \in BOOLEAN :
           FileStep(f, ok) /\ UNCHANGED exceptUpload
    \/ \E f \in Files, w \in {"paper", "kb"}, ok \in BOOLEAN :
           FinalUpdates(f, w, ok) /\ UNCHANGED exceptUpload
    \/ Respond /\ UNCHANGED exceptUpload

SpecUpload == Init /\ [][UploadNext]_vars

ParseNext ==
    \/ ReceiveResponse /\ UNCHANGED exceptParse
    \/ ParseResponse /\ UNCHANGED exceptParse

SpecParse == Init /\ [][ParseNext]_vars

PipelineNext ==
    \/ \E d \in Documents, n \in 1..MaxChunks : \E texts \in ChunkTexts(n) :
           StartProcessing(d, n, texts) /\ UNCHANGED exceptPipeline
    \/ \E d \in Documents :
           StartBatch(d) /\ UNCHANGED exceptPipeline
    \/ \E d \in Documents, o \in BatchOutcomes : \E c \in inFlight[d] :
           ResolveBatch(d, c, o) /\ UNCHANGED exceptPipeline
    \/ \E d \in Documents, o \in FallbackOutcomes : \E c \in inFlight[d] :
           ResolveFallback(d, c, o) /\ UNCHANGED exceptPipeline
    \/ \E d \in Documents, o \in StoreOutcomes : \E c \in inFlight[d] :
           FinishBatch(d, c, o) /\ UNCHANGED exceptPipeline
    \/ \E d \in Documents, o \in HierarchicalOutcomes :
           ResolveHierarchical(d, o) /\ UNCHANGED exceptPipeline
    \/ \E d \in Documents, o \in RefineOutcomes :
           ResolveRefine(d, o) /\ UNCHANGED exceptPipeline

SpecPipeline == Init /\ [][PipelineNext]_vars

ChunkerNext ==
    \/ ExtractText /\ UNCHANGED exceptChunker
    \/ ChunkText /\ UNCHANGED exceptChunker

SpecChunker == Init /\ [][ChunkerNext]_vars

SearchNext ==
    \/ RequestSearch /\ UNCHANGED exceptSearch
    \/ RunSearch /\ UNCHANGED exceptSearch

SpecSearch == Init /\ [][SearchNext]_vars

ToolsNext ==
    \/ \E p \in PaperIds, u \in Uploaders :
           processSinglePaper(p, u) /\ UNCHANGED exceptTools
    \/ \E p \in PaperIds, u \in Users, title \in Titles :
           updatePaperMetadata(p, u, title) /\ UNCHANGED exceptTools
    \/ \E p \in PaperIds, u \in Users :
           deletePaper(p, u) /\ UNCHANGED exceptTools
    \/ \E p \in PaperIds, u \in Users, q \in PaperIds :
           chatUploadPaper(p, u, q) /\ UNCHANGED exceptTools
    \/ \E p \in PaperIds, u \in Users, q \in ToolQueries,
          matches \in BOOLEAN :
           processChatMessage(p, u, q, matches) /\ UNCHANGED exceptTools
    \/ \E name \in ToolNames, p \in issuedIds, u \in Users :
          \E params \in ToolParams(name) :
           callFunctionByName(name, p, u, params) /\ UNCHANGED exceptTools

SpecTools == Init /\ [][ToolsNext]_vars

\* Sessions over three documents: uploads, questions and uploads attached
\* to a conversation.
AttachNext ==
    \/ \E p \in StoreIds, u \in Uploaders :
           processSinglePaper(p, u) /\ UNCHANGED exceptTools
    \/ \E p \in StoreIds, u \in Uploaders, q \in StoreIds :
           chatUploadPaper(p, u, q) /\ UNCHANGED exceptTools
    \/ \E p \in StoreIds, u \in Uploaders, q \in ToolQueries,
          matches \in BOOLEAN :
           processChatMessage(p, u, q, matches) /\ UNCHANGED exceptTools

SpecAttach == Init /\ [][AttachNext]_vars

(***************************************************************************)
(* Claims about the agent loop                                             *)
(***************************************************************************)

\* C2: in every reachable state of a question's agent loop, apiCallsMade is
\* at most MAX_API_CALLS, whatever the model answers.
C2_ApiCallsBounded == apiCallsMade <= MAX_API_CALLS

\* A fourth function call was requested after three executed ones.
C2_Witness ==
    /\ apiCallsMade = MAX_API_CALLS
    /\ lastPush = <<"max_depth_reached">>

C4_Claim ==
    (/\ apc = "done"
     /\ firstRequest = "getPaperDetails"
     /\ turns = 2
     /\ lastRequest = "final_answer"
     /\ toolsExecuted = apiCallsMade)
    => apiCallsMade = 1

\* C5 as claimed: when every response requests a function call, the loop ends
\* at MAX_TURNS with the fallback text and apiCallsMade <= MAX_API_CALLS.
C5_Claim ==
    (apc = "done" /\ onlyCalls)
    => /\ turns = MAX_TURNS
       /\ assistantMessage = FallbackAnswer
       /\ apiCallsMade <= MAX_API_CALLS

\* C5 amended: when every response requests a function call, the loop ends
\* at MAX_TURNS with apiCallsMade <= MAX_API_CALLS, and the answer is the
\* fallback text unless apiCallsMade has reached MAX_API_CALLS, when it may
\* be the answer formatted from the last response's final_answer.
C5_Amended ==
    (apc = "done" /\ onlyCalls)
    => /\ turns = MAX_TURNS
       /\ apiCallsMade <= MAX_API_CALLS
       /\ \/ assistantMessage = FallbackAnswer
          \/ /\ apiCallsMade = MAX_API_CALLS
             /\ assistantMessage.kind = "detailed"

\* Four function calls, three executed, the fourth cut off by the ceiling.
C5_Witness ==
    /\ apc = "done"
    /\ onlyCalls
    /\ apiCallsMade = MAX_API_CALLS
    /\ assistantMessage.kind = "detailed"

\* C6 as claimed: a turn whose response names a function outside the
\* allow-list executes no tool, leaves apiCallsMade and usedFunctions as they
\* are, appends the steering message and leaves the loop running.
C6_Claim ==
    [][(apc = "loop" /\ turns' = turns + 1 /\ lastRequest' = "deletePaper")
       => /\ toolsExecuted' = toolsExecuted
          /\ apiCallsMade' = apiCallsMade
          /\ usedFunctions' = usedFunctions
          /\ messageHistory' = Append(messageHistory, "allowed_functions")
          /\ finalAnswer' = NoAnswer]_vars

(***************************************************************************)
(* Claims about the rate limiter                                           *)
(***************************************************************************)

\* The acquisitions of a tier granted in the window that opens with the
\* acquisition at position p of the log.
GrantedInWindow(p, tier) ==
    { j \in p..Len(acqLog) :
        /\ acqLog[j].tier = tier
        /\ acqLog[j].time <= acqLog[p].time + RATE_LIMIT[tier].window }

\* C1 as claimed: for every tier and every interleaving of callers, the
\* acquisitions granted within one window, counted from the first acquisition
\* after a counter reset, never exceed the tier's requests.
C1_Claim ==
    \A p \in resetAt : \A tier \in Tiers :
        p <= Len(acqLog) =>
            Cardinality(GrantedInWindow(p, tier)) <= RATE_LIMIT[tier].requests

\* C22: under fair timers every call of the rate limiter returns: a caller
\* suspended on an exhausted budget is resumed and granted its acquisition.
\* rateLimitedCall has no path that reports the exhausted budget as an error.
C22_EveryCallReturns ==
    \A c \in Callers : (lpc[c] = "waiting") ~> (lpc[c] = "idle")

\* C22: a caller has been suspended, its timer has fired and it has returned.
C22_Witness ==
    \E c \in Callers :
        /\ lpc[c] = "idle"
        /\ wakeAt[c] > 0
        /\ now >= wakeAt[c]

\* The window that started at lastRequestTime has passed.
WindowElapsed == \E tier \in Tiers : WindowExpired(tier)

\* C25: the request counter decreases, and the window start moves, only
\* when the current window has elapsed; each granted acquisition raises the
\* counter by one, from its value or from zero after a rollover.
C25_Claim ==
    [][/\ requestCount' < requestCount => WindowElapsed
       /\ lastRequestTime' # lastRequestTime => WindowElapsed
       /\ Len(acqLog') > Len(acqLog)
              => requestCount' = (IF WindowElapsed THEN 0 ELSE requestCount)
                                     + 1]_vars

\* The part of C25 about one acquisition: it leaves the counter one above
\* its value, or at one after a reset.
C25_GrantRaisesByOne ==
    [][Len(acqLog') > Len(acqLog)
           => requestCount' \in {requestCount + 1, 1}]_vars

\* The budget a caller of the tier is held against: the module keeps one
\* requestCount and one lastRequestTime, whatever the tier.
TierBudget(tier) == [requestCount |-> requestCount,
                     windowStart |-> lastRequestTime]

\* A step of the limiter taken for a caller of the tier.
StepOfTier(tier) ==
    \/ \E c \in Callers : Call(c, tier)
    \/ \E c \in Callers : ltier[c] = tier /\ Wake(c)

\* C26: a step of the limiter for a caller of one tier leaves the request
\* count and the window start of every other tier as they were.
C26_Claim ==
    [][\A tier \in Tiers :
           StepOfTier(tier)
               => \A other \in Tiers \ {tier} :
                      TierBudget(other)' = TierBudget(other)]_vars

\* C26 as a caller sees it: a caller is suspended only when its own tier
\* has been granted at least its requests in the log.
C26_SuspendedOnOwnTier ==
    \A c \in Callers :
        lpc[c] = "waiting"
            => Cardinality({j \in 1..Len(acqLog) :
                               acqLog[j].tier = ltier[c]})
                   >= RATE_LIMIT[ltier[c]].requests

(***************************************************************************)
(* Claims about parseGeminiResponse                                        *)
(***************************************************************************)

\* C7 as claimed: for every input string parseGeminiResponse does not throw
\* and returns an object.
C7_Claim ==
    ppc = "parsed" => (~parsedResult.threw /\ parsedResult.type = "object")

(***************************************************************************)
(* Claims about the analysis pipeline                                      *)
(***************************************************************************)

\* The chunks of the batch of call c have the degraded result.
DegradedStored(d, c) ==
    \A k \in BatchChunks(c.batch, nChunks[d]) :
        chunkResults'[d][k] =
            [summary |-> IF c.prev = "null" THEN "Analysis failed" ELSE c.prev,
             keywords |-> "none"]

\* C8 as claimed: when a batch's model call and its fallback call both fail,
\* the batch's chunks get the degraded result (previous summary or "Analysis
\* failed", no keywords), the later batches are still processed, and the run
\* completes without raising and without aborting the document (runs in
\* which the store rejects an operation are left aside).
C8_Claim ==
    /\ [][\A d \in Documents : \A c \in inFlight[d] :
             (c.result = "degraded" /\ c \notin inFlight'[d])
                 => DegradedStored(d, c)]_vars
    /\ [](\A d \in Documents : (batchFailed[d] /\ ~storeFailed[d]) =>
             /\ ~pipelineRaised[d]
             /\ dpc[d] # "failed"
             /\ (dpc[d] = "completed" =>
                    settled[d] = 1..NumBatches(nChunks[d])))

\* C11 as claimed: the summary and keywords of every analyzed chunk are in
\* the store once its batch has completed (so before the next batch starts),
\* and stay there whatever happens later in the same run, a failure included.
C11_Claim ==
    \A d \in Documents : \A k \in 1..nChunks[d] :
        ((k + batchSize - 1) \div batchSize \in settled[d]
            /\ chunkResults[d][k] # Hole)
        => /\ k <= Len(storedChunks[d])
           /\ storedChunks[d][k].summary = chunkResults[d][k].summary
           /\ storedChunks[d][k].keywords = chunkResults[d][k].keywords

\* C9 as claimed: after every run that completes, the stored hierarchical
\* summary has a non-empty overview.
C9_Claim ==
    \A d \in Documents :
        dpc[d] = "completed" =>
            /\ storedSummary[d].kind = "object"
            /\ storedSummary[d].overview # ""

\* C10: within one document the call of a batch is in flight only when every
\* earlier batch of that document has settled and been stored, and at most
\* one batch of a document is in flight at a time.
C10_BatchesSequential ==
    \A d \in Documents :
        /\ Cardinality(inFlight[d]) <= 1
        /\ \A c \in inFlight[d] : \A b \in 1..c.batch - 1 : b \in settled[d]

\* C10: batches of different documents are not ordered: the second batch of
\* one document is in flight while the first batch of the other still is.
C10_Witness ==
    /\ \E c \in inFlight["doc1"] : c.batch = 1
    /\ \E c \in inFlight["doc2"] : c.batch = 2

(***************************************************************************)
(* Claims about the chunker                                                *)
(***************************************************************************)

NonSpace(s) == SelectSeq(s, LAMBDA c : ~IsSpace(c))

StartsWith(s, w) == HasWordAt(s, 1, w)

\* C12 as claimed: for every non-empty text and every fallbackSize the
\* chunker returns at least one segment, every segment is non-empty and no
\* longer than fallbackSize, and the segments in order cover the text up to
\* the white space trimmed at their boundaries.
C12_Claim ==
    cpc = "chunked" =>
        /\ Len(chunkerResult) >= 1
        /\ \A i \in 1..Len(chunkerResult) :
               /\ Len(chunkerResult[i]) >= 1
               /\ Len(chunkerResult[i]) <= fallbackSize
        /\ NonSpace(Flatten(chunkerResult)) = NonSpace(chunkerText)

\* C13 as claimed: "ABSTRACT\nFoo bar.\nINTRODUCTION\nBaz qux." with
\* fallbackSize 1000 gives exactly two segments, starting at ABSTRACT and at
\* INTRODUCTION; and whenever a text starts with one heading and has the
\* other after a line break, a segment starts at each of them.
C13_Claim ==
    cpc = "chunked" =>
        /\ (chunkerText = ScenarioText /\ fallbackSize = 1000) =>
               /\ Len(chunkerResult) = 2
               /\ StartsWith(chunkerResult[1], ABSTRACT)
               /\ StartsWith(chunkerResult[2], INTRODUCTION)
        /\ (StartsWith(chunkerText, ABSTRACT)
               /\ \E i \in 1..Len(chunkerText) :
                      HeadingAt(chunkerText, i, INTRODUCTION)) =>
               /\ \E k \in 1..Len(chunkerResult) :
                      StartsWith(chunkerResult[k], ABSTRACT)
               /\ \E k \in 1..Len(chunkerResult) :
                      StartsWith(chunkerResult[k], INTRODUCTION)

(***************************************************************************)
(* Claims about searchKnowledgeBase                                        *)
(***************************************************************************)

ContainsAll(chunk, query) == \A j \in 1..Len(query) : query[j] \in chunk

\* C14 as claimed: when the full-text stage returns nothing and some chunk
\* contains every term of the query, whatever the lengths of the terms, the
\* AND-match stage answers and returns such a chunk.
C14_Claim ==
    (/\ spc = "returned"
     /\ searchResult.stage \notin {"error", "full_text"}
     /\ \E k \in 1..Len(searchChunks) :
            ContainsAll(searchChunks[k], searchQuery))
    => /\ searchResult.stage = "and"
       /\ \E r \in 1..Len(searchResult.results) :
              ContainsAll(searchChunks[searchResult.results[r]], searchQuery)

NotOwner(p, u) == papers[p] # NoPaper /\ papers[p].user # u

\* C16: a call of any of the three tools with a userId that does not own the
\* document returns none of its data: getPaperDetails fails with NotFound,
\* searchKnowledgeBase returns no chunk and getChatHistory no message.
C16_Claim ==
    \A p \in PaperIds, u \in Users :
        NotOwner(p, u) =>
            /\ detailsThroughCache(PAPER_CONTEXT_CACHE, p, u).outcome
                   = "NotFound"
            /\ \A params \in ToolParams("searchKnowledgeBase") :
                   searchThroughCache(SEARCH_RESULT_CACHE, p, params.query,
                       params.maxResults, params.matches).results = <<>>
            /\ \A params \in ToolParams("getChatHistory") :
                   historyThroughCache(memoryCache, p, u,
                                       params.limit).count = 0

\* The part of C16 about getPaperDetails alone.
C16_DetailsOwnerOnly ==
    \A p \in PaperIds, u \in Users :
        NotOwner(p, u) =>
            detailsThroughCache(PAPER_CONTEXT_CACHE, p, u).outcome
                = "NotFound"

\* The part of C16 about getChatHistory alone.
C16_HistoryOwnerOnly ==
    \A p \in PaperIds, u \in Users :
        NotOwner(p, u) =>
            \A params \in ToolParams("getChatHistory") :
                historyThroughCache(memoryCache, p, u, params.limit).count = 0

\* What the caller asks for: maxResults, 3 when left out.
Requested(maxResults) ==
    IF maxResults.given THEN maxResults.value ELSE DefaultMaxResults

HonoursCache(p, params) ==
    LET queryKey == <<p, params.query>>
        entry == SEARCH_RESULT_CACHE[queryKey]
        call == searchThroughCache(SEARCH_RESULT_CACHE, p, params.query,
                                   params.maxResults, params.matches)
    IN  /\ call.fromCache <=>
               /\ entry.present
               /\ Len(entry.results) >= Requested(params.maxResults)
        /\ call.fromCache =>
               /\ call.results =
                      Limit(entry.results, Requested(params.maxResults))
               /\ call.cache = SEARCH_RESULT_CACHE
        /\ ~call.fromCache =>
               call.cache[queryKey] =
                   [present |-> TRUE, results |-> call.results]

\* C17: a search is answered from the search cache exactly when the entry
\* of (paperId, query) holds at least maxResults results, 3 when the caller
\* leaves maxResults out; otherwise the store is queried and the entry is
\* replaced by the new result.
C17_Claim ==
    \A p \in PaperIds : \A params \in ToolParams("searchKnowledgeBase") :
        HonoursCache(p, params)

\* The same for the calls that pass maxResults.
C17_WhenGiven ==
    \A p \in PaperIds : \A params \in ToolParams("searchKnowledgeBase") :
        params.maxResults.given => HonoursCache(p, params)

\* A step that attaches a new upload to a conversation about document p.
AttachesUploadTo(p) ==
    \E u \in Users, q \in PaperIds : chatUploadPaper(p, u, q)

\* C18: an entry of the paper-context cache, once computed, stays as it is,
\* except that a chatUploadPaper on a conversation removes the entry of the
\* document the conversation used, and with it every search-cache entry.
C18_Claim ==
    [][\A p \in PaperIds :
           /\ (PAPER_CONTEXT_CACHE[p] # NoDetails /\ ~AttachesUploadTo(p))
                  => PAPER_CONTEXT_CACHE'[p] = PAPER_CONTEXT_CACHE[p]
           /\ AttachesUploadTo(p)
                  => /\ PAPER_CONTEXT_CACHE'[p] = NoDetails
                     /\ \A k \in PaperIds \X ToolQueries :
                            SEARCH_RESULT_CACHE'[k] = NoResults]_vars

\* The first half of C18 alone: no step changes an entry that exists.
C18_ComputedOnce ==
    [][\A p \in PaperIds :
           PAPER_CONTEXT_CACHE[p] # NoDetails
               => PAPER_CONTEXT_CACHE'[p] = PAPER_CONTEXT_CACHE[p]]_vars

\* The search-cache half of C18 alone.
C18_SearchCacheEmptied ==
    [][\A p \in PaperIds :
           AttachesUploadTo(p)
               => \A k \in PaperIds \X ToolQueries :
                      SEARCH_RESULT_CACHE'[k] = NoResults]_vars

Deleted(p) == p \in issuedIds /\ papers[p] = NoPaper

\* C19: once a document is deleted no tool call returns data of it: its
\* entries in the paper-context cache, the search cache and the per-user
\* tool cache are gone, so getPaperDetails finds nothing, a search returns
\* no chunk and getChatHistory no message.
C19_Claim ==
    \A p \in PaperIds :
        Deleted(p) =>
            /\ PAPER_CONTEXT_CACHE[p] = NoDetails
            /\ \A q \in ToolQueries :
                   SEARCH_RESULT_CACHE[<<p, q>>].results = <<>>
            /\ \A u \in Users : memoryCache[<<u, p>>].count = 0
            /\ \A u \in Users :
                   /\ detailsThroughCache(PAPER_CONTEXT_CACHE, p,
                                          u).outcome = "NotFound"
                   /\ \A params \in ToolParams("searchKnowledgeBase") :
                          searchThroughCache(SEARCH_RESULT_CACHE, p,
                              params.query, params.maxResults,
                              params.matches).results = <<>>
                   /\ \A params \in ToolParams("getChatHistory") :
                          historyThroughCache(memoryCache, p, u,
                                              params.limit).count = 0

\* C19 for a deleted document that no cache holds anything of: the store
\* itself returns nothing of it.
C19_StoreReturnsNothing ==
    \A p \in PaperIds :
        (/\ Deleted(p)
         /\ PAPER_CONTEXT_CACHE[p] = NoDetails
         /\ \A q \in ToolQueries : ~SEARCH_RESULT_CACHE[<<p, q>>].present
         /\ \A u \in Users : ~memoryCache[<<u, p>>].hasChatHistory)
        => \A u \in Users :
               /\ getPaperDetails(p, u).outcome = "NotFound"
               /\ \A params \in ToolParams("searchKnowledgeBase") :
                      searchThroughCache(SEARCH_RESULT_CACHE, p,
                          params.query, params.maxResults,
                          params.matches).results = <<>>
               /\ getChatHistory(p, u, DefaultLimit) = 0

StoredDetails(p) ==
    [paper |-> p, title |-> papers[p].title, summary |-> papers[p].summary]

\* C20: for a stored document the value getPaperDetails returns through
\* callFunctionByName is the title and summary the store holds at the time
\* of the call; the paper-context cache holds no other value.
C20_Claim ==
    \A p \in PaperIds :
        papers[p] # NoPaper =>
            /\ PAPER_CONTEXT_CACHE[p] \in {NoDetails, StoredDetails(p)}
            /\ \A u \in Users :
                   LET call == detailsThroughCache(PAPER_CONTEXT_CACHE, p, u)
                   IN  call.outcome = "returned"
                           => call.details = StoredDetails(p)

\* C20 for the calls that are not answered from the cache.
C20_FreshReads ==
    \A p \in PaperIds, u \in Users :
        LET call == detailsThroughCache(PAPER_CONTEXT_CACHE, p, u)
        IN  (call.outcome = "returned" /\ ~call.fromCache)
                => call.details = StoredDetails(p)

\* What the caller asks for: limit, 5 when left out.
RequestedLimit(limit) == IF limit.given THEN limit.value ELSE DefaultLimit

\* C21: a getChatHistory call returns the limit most recent messages stored
\* for the user and the document at the time of the call, whatever earlier
\* questions have left in the tool cache.
C21_Claim ==
    \A p \in PaperIds, u \in Users :
        \A params \in ToolParams("getChatHistory") :
            historyThroughCache(memoryCache, p, u, params.limit).count
                = Min(chatMessages[<<p, u>>], RequestedLimit(params.limit))

\* C21 for the calls that are not answered from the tool cache.
C21_FreshReads ==
    \A p \in PaperIds, u \in Users :
        \A params \in ToolParams("getChatHistory") :
            LET call == historyThroughCache(memoryCache, p, u, params.limit)
            IN  ~call.fromCache
                    => call.count = Min(chatMessages[<<p, u>>],
                                        RequestedLimit(params.limit))

\* ---------------------------------------------------------------------
\* Progress of a pipeline run
\* ---------------------------------------------------------------------

C24_GeneralConversationEnds ==
    [][(apc = "loop" /\ turns' = turns + 1 /\ lastGeneral' # {}) =>
          /\ \A main \in lastGeneral' :
                 finalAnswer' = [kind |-> "main_idea", main |-> main]
          /\ ~LoopCondition'
          /\ lastPush' = <<>>
          /\ messageHistory' = messageHistory
          /\ toolsExecuted' = toolsExecuted
          /\ apiCallsMade' = apiCallsMade]_vars

\* The second turn's response was a general conversation after a tool call
\* in the first, and its main idea is the answer.
C24_Witness ==
    /\ apc = "loop"
    /\ turns = 2
    /\ toolsExecuted = 1
    /\ lastGeneral # {}
    /\ finalAnswer.kind = "main_idea"

\* C28 as claimed: when a response requests a function call while
\* apiCallsMade equals MAX_API_CALLS, no tool runs, apiCallsMade stays, and
\* the turn ends the loop with an answer formatted from that response.
C28_Claim ==
    [][(/\ apc = "loop"
        /\ turns' = turns + 1
        /\ lastRequest' \in ValidFunctions
        /\ apiCallsMade = MAX_API_CALLS)
       => /\ toolsExecuted' = toolsExecuted
          /\ apiCallsMade' = apiCallsMade
          /\ finalAnswer' # NoAnswer
          /\ finalAnswer' # FallbackAnswer]_vars

\* What holds of a function call requested at the ceiling: no tool runs and
\* apiCallsMade stays, and a turn that pushes the research-depth message ends
\* the loop with the formatted answer.
C28_NoToolAtCeiling ==
    [][(/\ apc = "loop"
        /\ turns' = turns + 1
        /\ lastRequest' \in ValidFunctions
        /\ apiCallsMade = MAX_API_CALLS)
       => /\ toolsExecuted' = toolsExecuted
          /\ apiCallsMade' = apiCallsMade
          /\ lastPush' = <<"max_depth_reached">> =>
                 finalAnswer'.kind = "detailed"]_vars

\* ---------------------------------------------------------------------
\* Context chaining between batches
\* ---------------------------------------------------------------------

\* C27 as claimed: the prompt of every batch after the first embeds the merged
\* summary returned for the batch before it, and the first batch has no
\* previous summary.
C27_Claim ==
    \A d \in Documents : \A c \in inFlight[d] :
        IF c.batch = 1
        THEN c.prev = "null"
        ELSE /\ c.batch - 1 <= Len(mergedSummaries[d])
             /\ c.prev = mergedSummaries[d][c.batch - 1]

\* What holds instead: the first batch has no previous summary, and a later
\* batch is given the summary stored for the last chunk of the batch before
\* it, or none when the response had no entry for that chunk.
C27_LastChunkSummary ==
    \A d \in Documents : \A c \in inFlight[d] :
        /\ c.batch = 1 => c.prev = "null"
        /\ c.batch > 1 =>
              c.prev = IF chunkResults[d][(c.batch - 1) * batchSize].summary = ""
                       THEN "null"
                       ELSE chunkResults[d][(c.batch - 1) * batchSize].summary

\* ---------------------------------------------------------------------
\* Pacing between batches
\* ---------------------------------------------------------------------

\* C30 as claimed: between every two consecutive batches of a document the
\* pipeline waits the delayBetweenChunks of the user's tier (free 5000 ms,
\* pro 1000 ms, enterprise 500 ms).
C30_Claim ==
    \A d \in Documents :
        /\ Len(batchWaits[d]) >= Cardinality(settled[d]) - 1
        /\ \A i \in 1..Len(batchWaits[d]) :
               batchWaits[d][i] = delayBetweenChunks[userTier]

\* What holds instead: after every batch that is not the last the pipeline
\* waits 1000 ms, whatever the tier.
C30_FixedDelay ==
    \A d \in Documents :
        /\ Len(batchWaits[d]) >= Cardinality(settled[d]) - 1
        /\ \A i \in 1..Len(batchWaits[d]) : batchWaits[d][i] = PipelineDelay

\* ---------------------------------------------------------------------
\* Priming of the context
\* ---------------------------------------------------------------------

\* The steps of the latest priming after the first two.
SplitSteps == SubSeq(primingLog, 3, Len(primingLog))

\* C29 as claimed: the priming of a question reads or calls getPaperDetails
\* and then searchKnowledgeBase with the raw question; when that result is
\* empty it searches the question's terms longer than 3 characters one by
\* one, in order, until a term's result is not empty or the terms are used
\* up; when it is not empty no term is searched.
C29_Claim ==
    primingLog # <<>> =>
        /\ Len(primingLog) >= 2
        /\ primingLog[1].tool = "getPaperDetails"
        /\ primingLog[2].tool = "searchKnowledgeBase"
        /\ LET terms == queryTerms(primingLog[2].query) IN
           IF primingLog[2].empty
           THEN /\ Len(SplitSteps) <= Len(terms)
                /\ \A i \in 1..Len(SplitSteps) :
                       /\ SplitSteps[i].query = <<terms[i]>>
                       /\ i < Len(SplitSteps) => SplitSteps[i].empty
                /\ \/ Len(SplitSteps) = Len(terms)
                   \/ /\ Len(SplitSteps) > 0
                      /\ ~SplitSteps[Len(SplitSteps)].empty
           ELSE SplitSteps = <<>>

\* What holds of the priming: getPaperDetails first, then the raw question;
\* the terms are searched only after a call (not a cache read) came back
\* empty, in order, and the search of the terms stops at the first term with
\* a cache entry, empty or not, or with a result that is not empty.
C29_AsCoded ==
    primingLog # <<>> =>
        /\ Len(primingLog) >= 2
        /\ primingLog[1].tool = "getPaperDetails"
        /\ primingLog[2].tool = "searchKnowledgeBase"
        /\ LET terms == queryTerms(primingLog[2].query) IN
           IF primingLog[2].empty /\ ~primingLog[2].cached
           THEN /\ Len(SplitSteps) <= Len(terms)
                /\ \A i \in 1..Len(SplitSteps) :
                       /\ SplitSteps[i].query = <<terms[i]>>
                       /\ i < Len(SplitSteps) =>
                              SplitSteps[i].empty /\ ~SplitSteps[i].cached
                /\ \/ Len(SplitSteps) = Len(terms)
                   \/ /\ Len(SplitSteps) > 0
                      /\ \/ ~SplitSteps[Len(SplitSteps)].empty
                         \/ SplitSteps[Len(SplitSteps)].cached
           ELSE SplitSteps = <<>>

\* ---------------------------------------------------------------------
\* Model requests and rate-limiter slots
\* ---------------------------------------------------------------------

\* C31 as claimed: every model request made while a document is analyzed is
\* issued under a rate-limiter slot acquired for it, so the requests made
\* never outnumber the acquisitions.
C31_Claim ==
    \A d \in Documents : llmRequests[d] <= slotsAcquired[d]

\* What holds: each batch's analysis call and each integrated-summary call
\* acquires a slot, two per batch reached, and no other request does.
C31_SlotsPerBatch ==
    \A d \in Documents :
        /\ slotsAcquired[d] <= 2 * NumBatches(nChunks[d])
        /\ slotsAcquired[d] >= 2 * Cardinality(settled[d])
        /\ llmRequests[d] >= slotsAcquired[d]

\* ---------------------------------------------------------------------
\* Validation of analysis answers
\* ---------------------------------------------------------------------

\* The response a detailed answer was formatted from: it had content and a
\* reasoning trace.
AnsweredFrom(answer) ==
    [kind |-> "object", fc |-> "none", thinking |-> TRUE, content |-> TRUE,
     main |-> answer.main, ev |-> answer.ev, an |-> answer.an]

\* C32 as claimed: a response with a reasoning trace and no function call
\* becomes the final answer only if validateResponseStructure accepts it.
C32_Claim ==
    [][(/\ apc = "loop"
        /\ turns' = turns + 1
        /\ lastRequest' = "final_answer"
        /\ finalAnswer'.kind = "detailed")
       => validateResponseStructure(AnsweredFrom(finalAnswer')) = "valid"]_vars

\* What holds: a response with a main idea and no function call becomes the
\* final answer in its turn and no validation message is pushed, whether it
\* carries a reasoning trace or not.
C32_MainIdeaAccepted ==
    [][(/\ apc = "loop"
        /\ turns' = turns + 1
        /\ lastRequest' = "final_answer")
       => /\ finalAnswer' # NoAnswer
          /\ lastPush' = <<>>]_vars


\* No stage of parseGeminiResponse before the fallback parses the text.
Unparseable(s) ==
    /\ JSONparse(StripFences(s)) = "error"
    /\ JSONparse(FixedJson(s)) = "error"
    /\ ~(BraceSpan(s) # <<>> /\ JSONparse(BraceSpan(s)) # "error")
    /\ ~SomePairFrom(s, 1)

(***************************************************************************)
(* C33: a non-empty response text that neither the direct parse nor any    *)
(* salvage strategy can parse comes back from parseGeminiResponse as the   *)
(* fallback object (no function call, main_idea the preview of the raw     *)
(* text), and the turn that received it ends the loop with that preview as *)
(* the answer, without executing a tool.                                   *)
(***************************************************************************)
C33_FallbackEndsTurn ==
    [][(/\ ppc = "parsed"
        /\ response # <<>>
        /\ Unparseable(response)
        /\ turns' = turns + 1)
       => (/\ parsedResult = Returned("object", "fallback")
           /\ parsedReply(parsedResult, response).fc = "none"
           /\ parsedReply(parsedResult, response).main
                 = Len(Preview(response))
           /\ Len(Preview(response)) > 0
           /\ finalAnswer' = [kind |-> "main_idea",
                              main |-> Len(Preview(response))]
           /\ ~LoopCondition'
           /\ apc' = "loop"
           /\ toolsExecuted' = toolsExecuted
           /\ apiCallsMade' = apiCallsMade
           /\ messageHistory' = messageHistory)]_vars

\* The second turn of a question received an unparseable text longer than
\* the preview and answered with the preview.
C33_Witness ==
    /\ apc = "loop"
    /\ turns = 2
    /\ parsedResult.stage = "fallback"
    /\ finalAnswer = [kind |-> "main_idea", main |-> PreviewLen]
    /\ toolsExecuted = 0


(***************************************************************************)
(* C34: searchKnowledgeBase never returns more than maxResults results,    *)
(* whichever stage of the cascade produced them and however many terms the *)
(* query has.                                                              *)
(***************************************************************************)
C34_Claim ==
    spc = "returned" => Len(searchResult.results) <= searchMaxResults

\* As coded: the full-text and AND stages are limited to maxResults, the
\* per-term OR stage returns one chunk for each matching term, and the
\* fallback returns one chunk.
C34_LimitedStages ==
    spc = "returned" =>
        /\ searchResult.stage \in {"full_text", "and"}
              => Len(searchResult.results) <= searchMaxResults
        /\ searchResult.stage = "or"
              => Len(searchResult.results) <= Len(queryTerms(searchQuery))
        /\ searchResult.stage = "fallback"
              => Len(searchResult.results) <= 1


(***************************************************************************)
(* C35: when processSinglePaper fails at a step after the KnowledgeBase    *)
(* record of the upload was created, neither a Paper nor a KnowledgeBase   *)
(* record of that upload remains in the store when it returns. (A failure  *)
(* before the creation leaves no record either.)                           *)
(***************************************************************************)
C35_Claim ==
    \A f \in Files :
        fileResult[f] = "error" => (paperDoc[f] = "none" /\ kbDoc[f] = "none")

\* As coded: a failure after the knowledge base was linked to the paper
\* leaves no record; the Paper record never survives a failure.
C35_LinkedRolledBack ==
    [][\A f \in Files :
          (fileResult[f] = "none" /\ fileResult'[f] = "error")
          => /\ paperDoc'[f] = "none"
             /\ kbDoc[f] \in {"placeholder", "final"} => kbDoc'[f] = "none"
             /\ kbDoc[f] = "unlinked" => kbDoc'[f] = "unlinked"]_vars

(***************************************************************************)
(* C36: no reader observes a Paper whose processingStatus is "completed"   *)
(* while its KnowledgeBase still holds the placeholder summaries written   *)
(* at creation: the two final updates become visible together.             *)
(***************************************************************************)
C36_Claim ==
    \A f \in Files : ~(paperDoc[f] = "completed" /\ kbDoc[f] = "placeholder")

\* As coded: a returned paper is completed with its final knowledge base.
C36_ReturnedComplete ==
    \A f \in Files :
        fileResult[f] = "paper"
        => (paperDoc[f] = "completed" /\ kbDoc[f] = "final")

\* The files of the request whose run returned a paper.
Succeeded == {f \in uploadFiles : fileResult[f] = "paper"}

(***************************************************************************)
(* C39: uploadPapers raises usage.currentMonthUploads by exactly the       *)
(* number of files whose processing succeeded; a file whose processing     *)
(* failed consumes no monthly quota and is counted as failed in the        *)
(* response.                                                               *)
(***************************************************************************)
C39_Claim ==
    upc = "responded" =>
        /\ currentMonthUploads = usageAtRequest + Cardinality(Succeeded)
        /\ uploadResponse.success = Cardinality(Succeeded)
        /\ uploadResponse.failed = Cardinality(uploadFiles \ Succeeded)

\* As coded: every file of an accepted request is counted as a successful
\* upload, whatever its run returned.
C39_EveryFileCounted ==
    upc = "responded" =>
        /\ currentMonthUploads = usageAtRequest + Cardinality(uploadFiles)
        /\ uploadResponse.success = Cardinality(uploadFiles)
        /\ uploadResponse.failed = 0
        /\ uploadResponse.errors = Cardinality(uploadFiles \ Succeeded)


\* The run completed and every chunk has an entry in chunkResults.
EveryChunkSummarised(d) ==
    /\ dpc[d] = "completed"
    /\ \A k \in 1..nChunks[d] : chunkResults[d][k] # Hole

OwnSummaryStored(d) ==
    \A k \in 1..nChunks[d] :
        /\ storedChunks[d][k].summary = chunkResults[d][k].summary
        /\ storedChunks[d][k].keywords = chunkResults[d][k].keywords

(***************************************************************************)
(* C37: after a run in which every batch returned a summary for each of    *)
(* its chunks, every stored chunk i carries the summary and keywords       *)
(* produced for chunk i, also when two chunks of the document have the     *)
(* same text.                                                              *)
(***************************************************************************)
C37_Claim ==
    \A d \in Documents : EveryChunkSummarised(d) => OwnSummaryStored(d)

\* As coded: the chunks are addressed by their text, so each chunk carries
\* its own summary when the texts of the document differ; of chunks with
\* the same text only the first is ever written.
FirstWithText(d, k) == \A j \in 1..k - 1 : chunkTexts[d][j] # chunkTexts[d][k]
OnlyWithText(d, k) ==
    \A j \in 1..nChunks[d] : j # k => chunkTexts[d][j] # chunkTexts[d][k]

C37_DistinctTexts ==
    \A d \in Documents :
        EveryChunkSummarised(d) =>
            \A k \in 1..nChunks[d] :
                /\ storedChunks[d][k].text = chunkTexts[d][k]
                /\ OnlyWithText(d, k) =>
                       /\ storedChunks[d][k].summary
                             = chunkResults[d][k].summary
                       /\ storedChunks[d][k].keywords
                             = chunkResults[d][k].keywords
                /\ FirstWithText(d, k) => storedChunks[d][k].summary # ""
                /\ ~FirstWithText(d, k) => storedChunks[d][k].summary = ""


(***************************************************************************)
(* C38: attaching a new upload to a conversation (chatUploadPaper) leaves  *)
(* the paper-context and search-cache entries of every document that the   *)
(* conversation does not involve (neither the document of the message nor  *)
(* the new one) unchanged.                                                 *)
(***************************************************************************)
C38_Claim ==
    [][\A p \in StoreIds, u \in Users, q \in StoreIds :
          chatUploadPaper(p, u, q)
          => \A d \in StoreIds \ {p, q} :
                /\ PAPER_CONTEXT_CACHE'[d] = PAPER_CONTEXT_CACHE[d]
                /\ \A query \in ToolQueries :
                      SEARCH_RESULT_CACHE'[<<d, query>>]
                          = SEARCH_RESULT_CACHE[<<d, query>>]]_vars

\* As coded: the paper-context entries of the other documents stay, and
\* every entry of the search cache is gone.
C38_ContextKept ==
    [][\A p \in StoreIds, u \in Users, q \in StoreIds :
          chatUploadPaper(p, u, q)
          => /\ \A d \in StoreIds \ {q} :
                   PAPER_CONTEXT_CACHE'[d] = PAPER_CONTEXT_CACHE[d]
             /\ \A k \in StoreIds \X ToolQueries :
                   SEARCH_RESULT_CACHE'[k] = NoResults]_vars

====
